---- MODULE Spec2Model ----
(***************************************************************************)
(* Model of the route-search engine of navigation_plus                     *)
(* (src/src/enhanced_routing_engine.py, class EnhancedRoutingEngine):      *)
(* vehicle capability, slope and edge cost, node location, the             *)
(* bidirectional search, the path merge and the route analysis.            *)
(*                                                                         *)
(* Numbers.  The code computes in floats; the model computes the same      *)
(* quantities exactly, in fixed units:                                     *)
(*   - a latitude is an index on one meridian, 100 m per step, so that     *)
(*     haversine_distance is 100 * |difference| metres;                    *)
(*   - elevations are in centimetres, slopes and slope thresholds in       *)
(*     hundredths of a percent;                                            *)
(*   - costs of the backward search are in millionths (Micro);             *)
(*   - float('inf') is the number Infinity, absorbing for + and *.         *)
(* Python's None is the node 0, the empty path, or the record NoneResult.  *)
(***************************************************************************)
EXTENDS Integers, Sequences, FiniteSets, TLC

(***************************************************************************)
(* Bounds of the model.                                                    *)
(***************************************************************************)
\* the search's max_iterations (50000 in the code), scaled to the graphs here
MaxIterations == 3
\* coordinates handed to find_optimal_route are latitudes 0..MaxCoord
MaxCoord == 5
\* a road network holds at most MaxEdges of the candidate edges
MaxEdges == 4
\* the longest sub-path handed to _merge_bidirectional_paths on its own
MaxPathLen == 2

(***************************************************************************)
(* Program constants.                                                      *)
(***************************************************************************)
Micro == 1000 * 1000
Infinity == 2000 * Micro
FarAway == 5000 * 1000
SearchRadius == 200
RelaxTenths == 14
EndEdgePenalty == 3
FuelPrice == 35
DefaultCityConsumptionTenths == 60
MinSpeed == 5

NoNode == 1 - 1
NoPath == << >>

Abs(x) == IF x < 0 THEN -x ELSE x
Max2(a, b) == IF a >= b THEN a ELSE b

\* float addition and multiplication with float('inf')
AddInf(a, b) == IF a >= Infinity \/ b >= Infinity THEN Infinity ELSE a + b
MulInf(a, k) == IF a >= Infinity THEN Infinity ELSE a * k

\* Python round(): num/den (den > 0) to the nearest integer, ties to even
RoundHalfEven(num, den) ==
    LET q == num \div den
        r == num % den
    IN  IF 2 * r < den THEN q
        ELSE IF 2 * r > den THEN q + 1
        ELSE IF q % 2 = 0 THEN q ELSE q + 1

\* round() of a value that may lie exactly half-way: the float the code
\* rounds is the nearest binary number, just above or just below the tie,
\* so either neighbour can come out
RoundOutcomes(num, den) ==
    IF 2 * (num % den) = den THEN {num \div den, (num \div den) + 1}
    ELSE {RoundHalfEven(num, den)}

\* dict.get(key, default)
Get(d, k, default) == IF k \in DOMAIN d THEN d[k] ELSE default

(***************************************************************************)
(* The inputs: road networks, vehicles, call arguments.                    *)
(***************************************************************************)
Nodes == {1, 2, 3, 4}

\* node n lies at latitude index NodeLat(n): 1, 2, 2, 3 (a diamond)
NodeLat(n) == 1 + (n \div 2)

\* elevation of a node without a hill, in metres
BaseElevation == 50
\* the hill heights, in centimetres: 17.74 m and 30 m
Heights == {1774, 3000}
HillNodes == {0, 3}

CandidateEdges ==
    << [from |-> 1, to |-> 2, distance |-> 100, speed_limit |-> 50],
       [from |-> 1, to |-> 3, distance |-> 100, speed_limit |-> 50],
       [from |-> 2, to |-> 4, distance |-> 100, speed_limit |-> 50],
       [from |-> 3, to |-> 4, distance |-> 100, speed_limit |-> 50],
       [from |-> 1, to |-> 2, distance |-> 50,  speed_limit |-> 30],
       [from |-> 4, to |-> 1, distance |-> 200, speed_limit |-> 50] >>

RECURSIVE PickEdges(_, _)
PickEdges(i, mask) ==
    IF i > Len(CandidateEdges) THEN << >>
    ELSE (IF i \in mask THEN << CandidateEdges[i] >> ELSE << >>)
         \o PickEdges(i + 1, mask)

VehicleDb ==
    [ egea_dizel |-> [hp |-> 95, torque_nm |-> 200, weight_kg |-> 1185,
                      fuel_consumption_city |-> 49, fuel_type |-> "Dizel"],
      kucuk_benzin |-> [hp |-> 60, torque_nm |-> 110, weight_kg |-> 1000,
                        fuel_consumption_city |-> 57, fuel_type |-> "Benzin"] ]

VehicleNames == {"egea_dizel", "kucuk_benzin", "bilinmeyen"}
TimesOfDay == {"peak", "offpeak"}
Modes == {"power_optimized", "fuel_saver", "time_saver", "balanced"}
Coords == 0 .. MaxCoord

VARIABLES
    nodes,               \* self.nodes: node id -> [gps, elevation]
    edges,               \* self.edges: the edge list
    vehicle_db,          \* self.vehicle_db
    pc,                  \* "idle", "search", "backward", "analyze", "done";
                         \* "merge", "merged", "call", "returned" for a method
                         \* called on its own
    start_node, end_node,
    vehicle_capability,  \* the caller's capability dict
    backward_relaxed,    \* a_star_search's relaxed copy
    time_of_day, mode,
    forward_open, forward_closed, forward_g_costs, forward_parents,
    backward_open, backward_closed, backward_g_costs, backward_parents,
    iteration, forward_iterations, backward_iterations,
    meeting_point,       \* current_node at the return of a merged path
    route_path,          \* what a_star_search returned
    result,              \* what find_optimal_route returned
    args,                \* the arguments of a function called on its own
    other                \* the locals of a second find_optimal_route, suspended

graph_vars == << nodes, edges, vehicle_db >>
call_vars == << start_node, end_node, vehicle_capability, time_of_day, mode >>
forward_vars == << forward_open, forward_closed, forward_g_costs, forward_parents >>
backward_vars == << backward_open, backward_closed, backward_g_costs, backward_parents >>
count_vars == << iteration, forward_iterations, backward_iterations >>
vars == << graph_vars, pc, call_vars, backward_relaxed, forward_vars, backward_vars,
           count_vars, meeting_point, route_path, result, args, other >>

(***************************************************************************)
(* haversine_distance: both points on the model's meridian, 100 m per      *)
(* latitude step, latitude 0 being the equator.  Origin stands for the     *)
(* point (0, 0) that the code substitutes for a missing gps: it is off the *)
(* meridian and far from every point of it.                                *)
(***************************************************************************)
Origin == 0 - 1

haversine_distance(lat1, lat2) ==
    IF lat1 = lat2 THEN 0
    ELSE IF lat1 = Origin \/ lat2 = Origin THEN FarAway
    ELSE 100 * Abs(lat2 - lat1)

\* self.nodes.get(str(node_id), {}) followed by .get('gps', []) / .get('elevation', 50)
NodeLatOf(n) == IF n \in DOMAIN nodes THEN nodes[n].gps ELSE Origin
NodeElevationOf(n) == IF n \in DOMAIN nodes THEN nodes[n].elevation ELSE BaseElevation * 100

(***************************************************************************)
(* calculate_vehicle_capability.  None is NoCapability.  Thresholds are in *)
(* hundredths of a percent, fuel multipliers in hundredths.                *)
(***************************************************************************)
NoCapability == [vehicle_name |-> "None"]

FuelMultipliers ==
    [flat |-> 100, gentle |-> 115, moderate |-> 135, steep |-> 165,
     extreme |-> 220, descent |-> 70]

\* BaseThresholds with the low tier reaching up to 70 inclusive
BaseThresholds_SeventyIsLow(hp, weight) ==
    IF hp * 1000 <= 70 * weight THEN << 800, 1200, 1500 >>
    ELSE IF hp * 1000 < 100 * weight THEN << 1000, 1500, 1800 >>
    ELSE << 1200, 1800, 2200 >>

\* lines 210-232: power_weight_ratio = (hp / weight) * 1000 against 70 and 100
BaseThresholds(hp, weight) ==
    IF hp * 1000 < 70 * weight THEN << 800, 1200, 1500 >>
    ELSE IF hp * 1000 < 100 * weight THEN << 1000, 1500, 1800 >>
    ELSE << 1200, 1800, 2200 >>

DieselBonus(vehicle) ==
    IF Get(vehicle, "fuel_type", "") = "Dizel" THEN << 100, 150, 200 >>
    ELSE << 0, 0, 0 >>

\* calculate_vehicle_capability refusing a vehicle that lacks a required field
calculate_vehicle_capability_Strict(vehicle_name) ==
    LET vehicle == Get(vehicle_db, vehicle_name, << >>)
    IN  IF ~({"hp", "torque_nm", "weight_kg", "fuel_type"} \subseteq DOMAIN vehicle)
        THEN NoCapability
        ELSE [ vehicle_name |-> vehicle_name,
               hp |-> vehicle.hp, torque |-> vehicle.torque_nm,
               weight |-> vehicle.weight_kg,
               power_weight_ratio |-> RoundHalfEven(vehicle.hp * 100000, vehicle.weight_kg),
               torque_weight_ratio |-> RoundHalfEven(vehicle.torque_nm * 100, vehicle.weight_kg),
               comfortable_slope |-> BaseThresholds(vehicle.hp, vehicle.weight_kg)[1]
                                       + DieselBonus(vehicle)[1],
               manageable_slope |-> BaseThresholds(vehicle.hp, vehicle.weight_kg)[2]
                                      + DieselBonus(vehicle)[2],
               maximum_slope |-> BaseThresholds(vehicle.hp, vehicle.weight_kg)[3]
                                   + DieselBonus(vehicle)[3],
               fuel_multipliers |-> FuelMultipliers ]

calculate_vehicle_capability(vehicle_name) ==
    LET vehicle == Get(vehicle_db, vehicle_name, << >>)
    IN  IF DOMAIN vehicle = {} THEN NoCapability
        ELSE
          LET hp == Get(vehicle, "hp", 100)
              torque == Get(vehicle, "torque_nm", 200)
              weight == Get(vehicle, "weight_kg", 1300)
              base == BaseThresholds(hp, weight)
              bonus == DieselBonus(vehicle)
          IN  [ vehicle_name |-> vehicle_name,
                hp |-> hp, torque |-> torque, weight |-> weight,
                power_weight_ratio |-> RoundHalfEven(hp * 100000, weight),
                torque_weight_ratio |-> RoundHalfEven(torque * 100, weight),
                comfortable_slope |-> base[1] + bonus[1],
                manageable_slope |-> base[2] + bonus[2],
                maximum_slope |-> base[3] + bonus[3],
                fuel_multipliers |-> FuelMultipliers ]

(***************************************************************************)
(* calculate_slope.  The category is decided on the unrounded slope, the   *)
(* reported slope_percent is rounded to two decimals (hundredths here).    *)
(***************************************************************************)
SlopeCategory(elevation_change, distance) ==
    \* slope_percent = elevation_change / distance * 100, or 0 when distance = 0;
    \* centimetres over metres are percent
    LET num == IF distance > 0 THEN elevation_change ELSE 0
        den == IF distance > 0 THEN distance ELSE 1
    IN  IF num < -2 * den THEN "descent"
        ELSE IF Abs(num) < 2 * den THEN "flat"
        ELSE IF Abs(num) < 5 * den THEN "gentle"
        ELSE IF Abs(num) < 10 * den THEN "moderate"
        ELSE IF Abs(num) < 15 * den THEN "steep"
        ELSE "extreme"

SlopeDifficulty(category) ==
    CASE category = "descent" -> "descent"
      [] category = "flat" -> "easy"
      [] category = "gentle" -> "easy"
      [] category = "moderate" -> "moderate"
      [] category = "steep" -> "hard"
      [] OTHER -> "extreme"

calculate_slope(from_node_id, to_node_id) ==
    LET from_elevation == NodeElevationOf(from_node_id)
        to_elevation == NodeElevationOf(to_node_id)
        elevation_change == to_elevation - from_elevation
        distance == haversine_distance(NodeLatOf(from_node_id), NodeLatOf(to_node_id))
        category == SlopeCategory(elevation_change, distance)
    IN  [ slope_percent |-> IF distance > 0
                            THEN RoundHalfEven(elevation_change * 100, distance)
                            ELSE 0,
          category |-> category,
          difficulty |-> SlopeDifficulty(category),
          elevation_change |-> RoundHalfEven(elevation_change, 10),
          distance_m |-> distance,
          from_elevation |-> RoundHalfEven(from_elevation, 10),
          to_elevation |-> RoundHalfEven(to_elevation, 10) ]

(***************************************************************************)
(* calculate_edge_cost.  time_of_day is a parameter the body never reads.  *)
(*   slope_penalty   thousandths (Infinity when impassable)                *)
(*   speed factor    parts of 20000                                        *)
(*   fuel_consumption, time_minutes  as the code rounds them: millilitres  *)
(*                   and tenths of a minute                                *)
(*   total_cost      millionths, or Infinity                               *)
(* The returned 'fuel_cost' (a price no caller in the engine reads) is     *)
(* left out.                                                               *)
(***************************************************************************)
DifficultyLevel(abs_slope, cap) ==
    IF abs_slope <= cap.comfortable_slope THEN "comfortable"
    ELSE IF abs_slope <= cap.manageable_slope THEN "manageable"
    ELSE IF abs_slope <= cap.maximum_slope THEN "difficult"
    ELSE "impassable"

\* SlopePenalty whose difficult tier starts where the manageable tier starts
SlopePenalty_NoStep(abs_slope, cap) ==
    IF abs_slope <= cap.comfortable_slope THEN 1000
    ELSE IF abs_slope <= cap.manageable_slope
         THEN 1500 + (abs_slope - cap.comfortable_slope)
    ELSE IF abs_slope <= cap.maximum_slope
         THEN 1500 + 2 * (abs_slope - cap.manageable_slope)
    ELSE Infinity

SlopePenalty(abs_slope, cap) ==
    IF abs_slope <= cap.comfortable_slope THEN 1000
    ELSE IF abs_slope <= cap.manageable_slope
         THEN 1500 + (abs_slope - cap.comfortable_slope)
    ELSE IF abs_slope <= cap.maximum_slope
         THEN 2500 + 2 * (abs_slope - cap.manageable_slope)
    ELSE Infinity

SpeedFactor(abs_slope, cap) ==
    IF abs_slope <= cap.comfortable_slope THEN 20000
    ELSE IF abs_slope <= cap.manageable_slope THEN 10000
    ELSE IF abs_slope <= cap.maximum_slope THEN 5000
    ELSE Max2(3000, 5000 - (abs_slope - cap.maximum_slope))

\* ModeWeights with time_saver weighting the time term twice
ModeWeights_TimeSaverDoublesTime(m) ==
    IF m = "power_optimized" THEN [fuel |-> 15, time |-> 8, slope |-> 25]
    ELSE IF m = "time_saver" THEN [fuel |-> 10, time |-> 20, slope |-> 10]
    ELSE [fuel |-> 10, time |-> 10, slope |-> 10]

\* the mode weights (fuel, time, slope), in tenths
ModeWeights(m) ==
    IF m = "power_optimized" THEN [fuel |-> 15, time |-> 8, slope |-> 25]
    ELSE [fuel |-> 10, time |-> 10, slope |-> 10]

\* lines 548-627, once the slope of the edge is known
EdgeCostOf(edge, slope_info, cap, m) ==
    LET distance == Get(edge, "distance", 100)
        base_speed == Get(edge, "speed_limit", 50)
        abs_slope == Abs(slope_info.slope_percent)
        slope_penalty == SlopePenalty(abs_slope, cap)
        passable == DifficultyLevel(abs_slope, cap) # "impassable"
        fuel_multiplier == Get(cap.fuel_multipliers, slope_info.category, 100)
        base_consumption == Get(cap, "fuel_consumption_city", DefaultCityConsumptionTenths)
        \* litres * 10^6 = (tenths/10/100) * (distance/1000) * (multiplier/100) * 10^6
        fuel_micro == (base_consumption * distance * fuel_multiplier) \div 100
        \* effective speed in km/h * 20000
        effective_speed == Max2(base_speed * SpeedFactor(abs_slope, cap), MinSpeed * 20000)
        \* minutes * 10^6 = distance/1000 / speed * 60 * 10^6
        time_micro == ((1200000 * distance) \div effective_speed) * 1000
        fuel_cost == fuel_micro * FuelPrice
        slope_cost == MulInf(slope_penalty, 10000)
        weights == ModeWeights(m)
    IN  [ total_cost |->
              IF ~passable THEN Infinity
              ELSE (weights.fuel * fuel_cost + weights.time * time_micro
                    + weights.slope * slope_cost) \div 10,
          distance |-> distance,
          fuel_consumption |-> RoundHalfEven(fuel_micro, 1000),
          time_minutes |-> RoundHalfEven(12000 * distance, effective_speed),
          slope_info |-> slope_info,
          passable |-> passable,
          difficulty_level |-> DifficultyLevel(abs_slope, cap),
          slope_penalty |-> IF slope_penalty >= Infinity THEN Infinity
                            ELSE RoundHalfEven(slope_penalty, 10) ]

\* calculate_edge_cost with the time of an edge doubled at peak time
calculate_edge_cost_PeakSlower(edge, cap, tod, m) ==
    CHOOSE cost_info \in
      { IF tod = "peak" THEN [c EXCEPT !.time_minutes = 2 * c.time_minutes] ELSE c :
          c \in { EdgeCostOf(edge, calculate_slope(edge.from, edge.to), cap, m) } } : TRUE

\* line 552: slope_info = self.calculate_slope(from, to), computed once
calculate_edge_cost(edge, cap, tod, m) ==
    CHOOSE cost_info \in
      { EdgeCostOf(edge, slope_info, cap, m) :
          slope_info \in { calculate_slope(edge.from, edge.to) } } : TRUE

(***************************************************************************)
(* calculate_heuristic: haversine / 100, inf when either node is unknown.  *)
(***************************************************************************)
calculate_heuristic(from_node_id, to_node_id) ==
    IF from_node_id \notin DOMAIN nodes \/ to_node_id \notin DOMAIN nodes
    THEN Infinity
    ELSE haversine_distance(NodeLatOf(from_node_id), NodeLatOf(to_node_id)) \div 100

(***************************************************************************)
(* _build_edge_index: the edges leaving and entering a node, in list order *)
(***************************************************************************)
outgoing_edges(n) == SelectSeq(edges, LAMBDA e : e.from = n)
incoming_edges(n) == SelectSeq(edges, LAMBDA e : e.to = n)

\* the two dicts _build_edge_index leaves in the engine: a key for every
\* node id that some edge names as its 'from' (its 'to')
build_edge_index ==
    [ outgoing_edges |-> [n \in { edges[i].from : i \in DOMAIN edges } |-> outgoing_edges(n)],
      incoming_edges |-> [n \in { edges[i].to : i \in DOMAIN edges } |-> incoming_edges(n)] ]

(***************************************************************************)
(* find_closest_node.  A coordinate is its latitude index; the latitude 0  *)
(* is falsy in Python, for the coordinate (line 412) and for a node (line  *)
(* 422), and so is the missing gps of a node.  The candidates are sorted by score, best first, with a     *)
(* stable sort: among candidates of equal score the first node of          *)
(* self.nodes (the smallest id here) stays first.  Two candidates at equal *)
(* distance on opposite sides of the coordinate have scores that are equal *)
(* in exact arithmetic and differ in the floats' last bits, so either can  *)
(* come first: find_closest_node is the set of nodes the code can return.  *)
(***************************************************************************)
ConnectionScore(n) == Len(outgoing_edges(n)) + Len(incoming_edges(n))

\* total_score * 10 = connection_score * 1000 - distance
TotalScore(lat, n) ==
    ConnectionScore(n) * 1000 - haversine_distance(lat, NodeLatOf(n))

\* line 422: 'if not node_lat or not node_lon: continue'
HasNoPosition(node_lat) == node_lat = 0 \/ node_lat = Origin

Candidates(lat) ==
    { n \in DOMAIN nodes :
        /\ ~HasNoPosition(NodeLatOf(n))
        /\ haversine_distance(lat, NodeLatOf(n)) < SearchRadius }

BestCandidates(lat) ==
    { n \in Candidates(lat) :
        \A o \in Candidates(lat) : TotalScore(lat, n) >= TotalScore(lat, o) }

find_closest_node(lat) ==
    IF HasNoPosition(lat) THEN {NoNode}
    ELSE IF Candidates(lat) = {} THEN {NoNode}
    ELSE { n \in BestCandidates(lat) :
             \A o \in BestCandidates(lat) : NodeLatOf(o) = NodeLatOf(n) => n <= o }

(***************************************************************************)
(* The open lists are heaps of tuples (f_cost, node, path); heappop takes  *)
(* the least tuple in Python's tuple order.  No tuple is pushed twice, so  *)
(* a heap is the set of its tuples.                                        *)
(***************************************************************************)
RECURSIVE ListLess(_, _)
ListLess(p, q) ==
    IF p = << >> THEN q # << >>
    ELSE IF q = << >> THEN FALSE
    ELSE IF Head(p) # Head(q) THEN Head(p) < Head(q)
    ELSE ListLess(Tail(p), Tail(q))

TupleLess(a, b) ==
    \/ a[1] < b[1]
    \/ a[1] = b[1] /\ a[2] < b[2]
    \/ a[1] = b[1] /\ a[2] = b[2] /\ ListLess(a[3], b[3])

HeapTop(heap) == CHOOSE e \in heap : \A o \in heap \ {e} : TupleLess(e, o)

\* dict[key] = value
Put(d, k, v) == (k :> v) @@ d

(***************************************************************************)
(* _merge_bidirectional_paths                                              *)
(***************************************************************************)
Reverse(p) == [i \in 1 .. Len(p) |-> p[Len(p) + 1 - i]]

NoParent == [parent |-> NoNode, path |-> << >>]

\* MergePaths that keeps the first element of the reversed backward path
MergePaths_KeepsMeetingTwice(forward_path, backward_path) ==
    LET backward_path_reversed == Reverse(backward_path)
    IN  IF forward_path # << >> /\ backward_path_reversed # << >>
        THEN forward_path \o backward_path_reversed
        ELSE IF forward_path # << >> THEN forward_path
        ELSE backward_path_reversed

\* MergePaths appending the backward path as recorded, from the end node
\* back to the meeting node
MergePaths_BackwardNotReversed(forward_path, backward_path) ==
    IF forward_path # << >> /\ backward_path # << >>
    THEN forward_path \o Tail(backward_path)
    ELSE IF forward_path # << >> THEN forward_path
    ELSE backward_path

MergePaths(forward_path, backward_path) ==
    LET backward_path_reversed == Reverse(backward_path)
    IN  IF forward_path # << >> /\ backward_path_reversed # << >>
        THEN forward_path \o Tail(backward_path_reversed)
        ELSE IF forward_path # << >> THEN forward_path
        ELSE backward_path_reversed

merge_bidirectional_paths(m, fparents, bparents) ==
    MergePaths(Get(fparents, m, NoParent).path, Get(bparents, m, NoParent).path)

(***************************************************************************)
(* analyze_route: one segment per consecutive pair that has an edge (the   *)
(* first edge of outgoing_edges[from] that leads to the next node), costed *)
(* with the capability it is given and the mode 'balanced'.                *)
(*   total_distance  hundredths of a km     total_fuel  hundredths of a l  *)
(*   total_time      tenths of a minute     max_slope   tenths of a percent*)
(***************************************************************************)
\* FindEdge keeping the last matching edge instead of breaking at the first
FindEdge_LastMatch(from_node, to_node) ==
    LET found == SelectSeq(outgoing_edges(from_node), LAMBDA e : e.to = to_node)
    IN  IF found = << >> THEN << >> ELSE << found[Len(found)] >>

\* lines 820-824: the first edge of outgoing_edges[from] that leads to to_node
FindEdge(from_node, to_node) ==
    LET found == SelectSeq(outgoing_edges(from_node), LAMBDA e : e.to = to_node)
    IN  IF found = << >> THEN << >> ELSE << Head(found) >>

AnalysisMode == "balanced"

\* lines 849-864: the segment record of one edge cost
SegmentOf(edge, cost_info) ==
    [ from |-> edge.from, to |-> edge.to,
      distance |-> cost_info.distance,
      slope |-> cost_info.slope_info.slope_percent,
      category |-> cost_info.slope_info.category,
      difficulty |-> cost_info.slope_info.difficulty,
      elevation_change |-> cost_info.slope_info.elevation_change,
      fuel_consumption |-> cost_info.fuel_consumption,
      time_minutes |-> cost_info.time_minutes,
      passable |-> cost_info.passable,
      difficulty_level |-> cost_info.difficulty_level ]

\* lines 829-832: cost_info = self.calculate_edge_cost(edge, cap, tod, 'balanced')
Segment(edge, cap, tod) ==
    CHOOSE seg \in
      { SegmentOf(edge, cost_info) :
          cost_info \in { calculate_edge_cost(edge, cap, tod, AnalysisMode) } } : TRUE

RECURSIVE Segments(_, _, _)
Segments(path, cap, tod) ==
    IF Len(path) < 2 THEN << >>
    ELSE LET edge == FindEdge(path[1], path[2])
         IN  (IF edge = << >> THEN << >> ELSE << Segment(edge[1], cap, tod) >>)
             \o Segments(Tail(path), cap, tod)

RECURSIVE SumOf(_, _)
SumOf(segs, field) ==
    IF segs = << >> THEN 0 ELSE Head(segs)[field] + SumOf(Tail(segs), field)

RECURSIVE MaxAbsSlope(_)
MaxAbsSlope(segs) ==
    IF segs = << >> THEN 0
    ELSE Max2(Abs(Head(segs).slope), MaxAbsSlope(Tail(segs)))

\* IsCritical counting every segment that is not comfortable
IsCritical_CountsImpassable(seg) == seg.difficulty_level # "comfortable"

\* lines 845-846
IsCritical(seg) == seg.difficulty_level \in {"difficult", "manageable"}

\* analyze_route marking the summary of a path without a segment as an error
analyze_route_MarksShortPath(path, cap, tod) ==
    IF Len(path) < 2
    THEN { [ kind |-> "Summary", path |-> path, segments |-> << >>,
             total_distance |-> 0, total_fuel |-> 0, fuel_cost |-> 0,
             total_time |-> 0, max_slope |-> 0, critical_sections |-> 0,
             vehicle_capability |-> cap, error |-> "Rota bulunamadi" ] }
    ELSE { [ kind |-> "Summary", path |-> path, segments |-> << >>,
             total_distance |-> 0, total_fuel |-> 0, fuel_cost |-> 0,
             total_time |-> 0, max_slope |-> 0, critical_sections |-> 0,
             vehicle_capability |-> cap ] }

\* the summaries analyze_route can return (one, unless a total lies on a
\* rounding tie); fuel_cost = round(total_fuel * 35, 2)
analyze_route(path, cap, tod) ==
    UNION {
      LET total_fuel == SumOf(slope_segments, "fuel_consumption")
      IN  { [ kind |-> "Summary",
              path |-> path,
              segments |-> slope_segments,
              total_distance |-> td,
              total_fuel |-> tf,
              fuel_cost |-> fc,
              total_time |-> SumOf(slope_segments, "time_minutes"),
              max_slope |-> ms,
              critical_sections |->
                  Cardinality({i \in 1 .. Len(slope_segments) :
                                 IsCritical(slope_segments[i])}),
              vehicle_capability |-> cap ] :
            td \in RoundOutcomes(SumOf(slope_segments, "distance"), 10),
            tf \in RoundOutcomes(total_fuel, 10),
            fc \in RoundOutcomes(total_fuel * FuelPrice, 10),
            ms \in RoundOutcomes(MaxAbsSlope(slope_segments), 10) } :
      slope_segments \in { Segments(path, cap, tod) } }

\* NotFoundSummary with the error marker forgotten
NotFoundSummary_NoMarker(start, cap) ==
    [ kind |-> "Summary",
      path |-> IF start # NoNode THEN << start >> ELSE << >>,
      segments |-> << >>,
      total_distance |-> 0, total_fuel |-> 0, fuel_cost |-> 0, total_time |-> 0,
      max_slope |-> 0, critical_sections |-> 0,
      vehicle_capability |-> cap ]

\* the summary find_optimal_route builds itself when no route was found
NotFoundSummary(start, cap) ==
    [ kind |-> "Summary",
      path |-> IF start # NoNode THEN << start >> ELSE << >>,
      segments |-> << >>,
      total_distance |-> 0, total_fuel |-> 0, fuel_cost |-> 0, total_time |-> 0,
      max_slope |-> 0, critical_sections |-> 0,
      vehicle_capability |-> cap,
      error |-> "Rota bulunamadi" ]

NoArgs == << >>
NoCall == << >>
NoneResult == [kind |-> "None"]
Pending == [kind |-> "pending"]

(***************************************************************************)
(* a_star_search: the set-up (lines 632-657)                               *)
(***************************************************************************)
\* the thresholds doubled instead of multiplied by 1.4
Relaxed_Doubled(threshold) == threshold * 2

Relaxed(threshold) == (threshold * RelaxTenths) \div 10

\* relax_thresholds without the copy: the caller's dict is relaxed too
relax_thresholds_InPlace(cap) ==
    LET relaxed == [cap EXCEPT !.comfortable_slope = Relaxed(cap.comfortable_slope),
                               !.manageable_slope = Relaxed(cap.manageable_slope),
                               !.maximum_slope = Relaxed(cap.maximum_slope)]
    IN  [ backward_relaxed |-> relaxed, vehicle_capability |-> relaxed ]

\* backward_relaxed = vehicle_capability.copy() with the three thresholds
\* relaxed; the caller's dict is left as it was
relax_thresholds(cap) ==
    [ backward_relaxed |->
          [cap EXCEPT !.comfortable_slope = Relaxed(cap.comfortable_slope),
                      !.manageable_slope = Relaxed(cap.manageable_slope),
                      !.maximum_slope = Relaxed(cap.maximum_slope)],
      vehicle_capability |-> cap ]

\* LoopContinues with the cap compared by <= : one iteration too many
LoopContinues_OffByOne(fopen, bopen, it) ==
    (fopen # {} \/ bopen # {}) /\ it <= MaxIterations

\* LoopContinues as "while True": neither the frontiers nor the cap end it
LoopContinues_Forever(fopen, bopen, it) == TRUE

\* LoopContinues with "and" between the frontiers: one empty heap ends it
LoopContinues_BothOpen(fopen, bopen, it) ==
    (fopen # {} /\ bopen # {}) /\ it < MaxIterations

\* the while condition
LoopContinues(fopen, bopen, it) ==
    (fopen # {} \/ bopen # {}) /\ it < MaxIterations

(***************************************************************************)
(* The forward half of an iteration: relax the outgoing edges of the       *)
(* popped node, in list order.  st = [open, g_costs, parents].             *)
(***************************************************************************)
ForwardEdgeWeight(edge) == Get(edge, "distance", 100)

\* RelaxForwardEdge leaving out the edges the vehicle cannot pass
RelaxForwardEdge_SkipsImpassable(edge, current_node, current_path, closed, st) ==
    LET neighbor == edge.to
        tentative_g == st.g_costs[current_node] + ForwardEdgeWeight(edge)
        better == \/ neighbor \notin DOMAIN st.g_costs
                  \/ tentative_g < st.g_costs[neighbor]
        new_path == Append(current_path, neighbor)
        f_cost == AddInf(tentative_g, calculate_heuristic(neighbor, end_node))
    IN  IF \/ neighbor \in closed
           \/ ~better
           \/ ~calculate_edge_cost(edge, vehicle_capability, time_of_day, mode).passable
        THEN st
        ELSE [ open |-> st.open \cup { << f_cost, neighbor, new_path >> },
               g_costs |-> Put(st.g_costs, neighbor, tentative_g),
               parents |-> Put(st.parents, neighbor,
                               [parent |-> current_node, path |-> new_path]) ]

\* RelaxForwardEdge admitting an edge as the backward search does: only when
\* it is passable under the relaxed thresholds
RelaxForwardEdge_AsBackward(edge, current_node, current_path, closed, st) ==
    LET neighbor == edge.to
        tentative_g == st.g_costs[current_node] + ForwardEdgeWeight(edge)
        better == \/ neighbor \notin DOMAIN st.g_costs
                  \/ tentative_g < st.g_costs[neighbor]
        new_path == Append(current_path, neighbor)
        f_cost == AddInf(tentative_g, calculate_heuristic(neighbor, end_node))
    IN  IF \/ neighbor \in closed
           \/ ~better
           \/ ~calculate_edge_cost(edge, backward_relaxed, time_of_day, mode).passable
        THEN st
        ELSE [ open |-> st.open \cup { << f_cost, neighbor, new_path >> },
               g_costs |-> Put(st.g_costs, neighbor, tentative_g),
               parents |-> Put(st.parents, neighbor,
                               [parent |-> current_node, path |-> new_path]) ]

\* lines 690-707 for one edge
RelaxForwardEdge(edge, current_node, current_path, closed, st) ==
    LET neighbor == edge.to
        tentative_g == st.g_costs[current_node] + ForwardEdgeWeight(edge)
        better == \/ neighbor \notin DOMAIN st.g_costs
                  \/ tentative_g < st.g_costs[neighbor]
        new_path == Append(current_path, neighbor)
        f_cost == AddInf(tentative_g, calculate_heuristic(neighbor, end_node))
    IN  IF neighbor \in closed \/ ~better
        THEN st
        ELSE [ open |-> st.open \cup { << f_cost, neighbor, new_path >> },
               g_costs |-> Put(st.g_costs, neighbor, tentative_g),
               parents |-> Put(st.parents, neighbor,
                               [parent |-> current_node, path |-> new_path]) ]

\* the for loop; each edge's outcome is bound as a value before the next
RECURSIVE RelaxForward(_, _, _, _, _)
RelaxForward(es, current_node, current_path, closed, st) ==
    IF es = << >> THEN st
    ELSE CHOOSE after \in
           { RelaxForward(Tail(es), current_node, current_path, closed, nxt) :
               nxt \in { RelaxForwardEdge(Head(es), current_node, current_path,
                                          closed, st) } } : TRUE

(***************************************************************************)
(* The backward half: relax the incoming edges of the popped node under    *)
(* the relaxed capability.                                                 *)
(***************************************************************************)
\* AdmitBackward with the passability test forgotten
AdmitBackward_Always(edge_cost_info, is_end_edge) == TRUE

\* AdmitBackward without the allowance for the edges into the end node
AdmitBackward_PassableOnly(edge_cost_info, is_end_edge) == edge_cost_info.passable

\* line 740: an impassable edge is skipped unless the popped node is the end
AdmitBackward(edge_cost_info, is_end_edge) ==
    edge_cost_info.passable \/ is_end_edge

\* lines 743-744: total_cost * cost_multiplier
BackwardEdgeWeight(edge_cost_info, is_end_edge) ==
    MulInf(edge_cost_info.total_cost,
           IF is_end_edge /\ ~edge_cost_info.passable THEN EndEdgePenalty ELSE 1)

\* lines 738-754 for one edge whose cost is known
RelaxBackwardCost(edge, edge_cost_info, current_node, current_path, st) ==
    LET neighbor == edge.from
        is_end_edge == (current_node = end_node)
        tentative_g == AddInf(st.g_costs[current_node],
                              BackwardEdgeWeight(edge_cost_info, is_end_edge))
        better == \/ neighbor \notin DOMAIN st.g_costs
                  \/ tentative_g < st.g_costs[neighbor]
        new_path == Append(current_path, neighbor)
        f_cost == AddInf(tentative_g,
                         MulInf(calculate_heuristic(neighbor, start_node), Micro))
    IN  IF ~AdmitBackward(edge_cost_info, is_end_edge) \/ ~better
        THEN st
        ELSE [ open |-> st.open \cup { << f_cost, neighbor, new_path >> },
               g_costs |-> Put(st.g_costs, neighbor, tentative_g),
               parents |-> Put(st.parents, neighbor,
                               [parent |-> current_node, path |-> new_path]) ]

\* lines 728-754 for one edge: a closed neighbour is skipped before the
\* edge is costed (lines 731-736)
RelaxBackwardEdge(edge, current_node, current_path, closed, st) ==
    IF edge.from \in closed THEN st
    ELSE CHOOSE after \in
           { RelaxBackwardCost(edge, edge_cost_info, current_node, current_path, st) :
               edge_cost_info \in
                 { calculate_edge_cost(edge, backward_relaxed, time_of_day, mode) } } : TRUE

RECURSIVE RelaxBackward(_, _, _, _, _)
RelaxBackward(es, current_node, current_path, closed, st) ==
    IF es = << >> THEN st
    ELSE CHOOSE after \in
           { RelaxBackward(Tail(es), current_node, current_path, closed, nxt) :
               nxt \in { RelaxBackwardEdge(Head(es), current_node, current_path,
                                           closed, st) } } : TRUE

(***************************************************************************)
(* The state machine.  The engine is constructed over a road network and a *)
(* vehicle database; a caller then calls find_optimal_route, whose search  *)
(* loop runs one half-iteration per step.                                  *)
(***************************************************************************)
EmptyDict == << >>

RoadNetworks ==
    { mask \in SUBSET (1 .. Len(CandidateEdges)) : Cardinality(mask) <= MaxEdges }

Init ==
    /\ \E hill \in HillNodes, height \in Heights :
          nodes = [n \in Nodes |->
                     [gps |-> NodeLat(n),
                      elevation |-> BaseElevation * 100 + (IF n = hill THEN height ELSE 0)]]
    /\ \E mask \in RoadNetworks : edges = PickEdges(1, mask)
    /\ vehicle_db = VehicleDb
    /\ pc = "idle"
    /\ start_node = NoNode /\ end_node = NoNode
    /\ vehicle_capability = NoCapability
    /\ backward_relaxed = NoCapability
    /\ time_of_day = "" /\ mode = ""
    /\ forward_open = {} /\ forward_closed = {}
    /\ forward_g_costs = EmptyDict /\ forward_parents = EmptyDict
    /\ backward_open = {} /\ backward_closed = {}
    /\ backward_g_costs = EmptyDict /\ backward_parents = EmptyDict
    /\ iteration = 0 /\ forward_iterations = 0 /\ backward_iterations = 0
    /\ meeting_point = NoNode
    /\ route_path = NoPath
    /\ result = Pending
    /\ args = NoArgs
    /\ other = NoCall

\* ReturnsEarly with the same-node check forgotten
ReturnsEarly_NoSameNode(cap, s, e) ==
    \/ cap = NoCapability
    \/ s = NoNode
    \/ e = NoNode

\* ReturnsEarly with the end-node check forgotten
ReturnsEarly_NoEndCheck(cap, s, e) ==
    \/ cap = NoCapability
    \/ s = NoNode
    \/ s = e

\* find_optimal_route, lines 334-358: the failures returned before the search
ReturnsEarly(cap, s, e) ==
    \/ cap = NoCapability
    \/ s = NoNode
    \/ e = NoNode
    \/ s = e

\* find_optimal_route up to the while loop of a_star_search, with the
\* capability and the two located nodes already computed (lines 334-370, 632-657)
EnterRoute(cap, s, e, tod, m) ==
    LET copy == relax_thresholds(cap)
    IN  /\ pc = "idle"
        /\ start_node' = s /\ end_node' = e
        /\ IF ReturnsEarly(cap, s, e)
           THEN /\ vehicle_capability' = cap
                /\ result' = NoneResult
                /\ pc' = "done"
                /\ UNCHANGED << time_of_day, mode, backward_relaxed,
                                forward_vars, backward_vars >>
           ELSE /\ time_of_day' = tod /\ mode' = m
                /\ vehicle_capability' = copy.vehicle_capability
                /\ backward_relaxed' = copy.backward_relaxed
                /\ forward_open' = { << 0, s, << s >> >> }
                /\ forward_closed' = {}
                /\ forward_g_costs' = Put(EmptyDict, s, 0)
                /\ forward_parents' = Put(EmptyDict, s, [parent |-> NoNode, path |-> << s >>])
                /\ backward_open' = { << 0, e, << e >> >> }
                /\ backward_closed' = {}
                /\ backward_g_costs' = Put(EmptyDict, e, 0)
                /\ backward_parents' = Put(EmptyDict, e, [parent |-> NoNode, path |-> << e >>])
                /\ result' = Pending
                /\ pc' = "search"
        /\ UNCHANGED << graph_vars, args, other, count_vars, meeting_point, route_path >>

\* find_optimal_route(start_gps, end_gps, vehicle_name, time_of_day, mode),
\* called with a time of day and a mode among the given ones:
\* an unknown vehicle returns before any node is located
FindOptimalRouteWith(times, modes) ==
    /\ pc = "idle"
    /\ \E vehicle_name \in VehicleNames :
      LET cap == calculate_vehicle_capability(vehicle_name) IN
      \E start_gps \in Coords :
        \E s \in (IF cap = NoCapability THEN {NoNode} ELSE find_closest_node(start_gps)) :
          \E end_gps \in Coords :
            \E e \in (IF cap = NoCapability THEN {NoNode} ELSE find_closest_node(end_gps)) :
              \E tod \in times, m \in modes :
                EnterRoute(cap, s, e, tod, m)

FindOptimalRoute == FindOptimalRouteWith(TimesOfDay, Modes)

\* IsMeeting with the membership test never succeeding
IsMeeting_Never(node, other_closed) == FALSE

\* IsMeeting succeeding only at the start node and the end node
IsMeeting_OnlyAtEndpoints(node, other_closed) ==
    node \in other_closed \cap {start_node, end_node}

\* lines 676 and 714: the popped node is in the other direction's closed set
IsMeeting(node, other_closed) == node \in other_closed

\* line 663: the loop body is entered.  The counter never passes the cap
\* there; stating it keeps the counter of the model bounded.
LoopBody ==
    /\ pc = "search"
    /\ LoopContinues(forward_open, backward_open, iteration)
    /\ iteration <= MaxIterations

\* lines 663-664 and 672: the loop goes on and the forward heap is popped
ForwardPops ==
    /\ LoopBody
    /\ forward_open # {}

\* lines 676-685: the popped node is closed backward: merge and return
ForwardMeet ==
    /\ ForwardPops
    /\ LET top == HeapTop(forward_open) IN
        /\ IsMeeting(top[2], backward_closed)
        /\ iteration' = iteration + 1
        /\ forward_iterations' = forward_iterations + 1
        /\ forward_open' = forward_open \ {top}
        /\ meeting_point' = top[2]
        /\ route_path' = merge_bidirectional_paths(top[2], forward_parents, backward_parents)
        /\ pc' = "analyze"
    /\ UNCHANGED << graph_vars, args, other, call_vars, backward_relaxed, forward_closed,
                    forward_g_costs, forward_parents, backward_vars,
                    backward_iterations, result >>

\* lines 687-707: the popped node is closed forward and its edges relaxed
ForwardExpand ==
    /\ ForwardPops
    /\ LET top == HeapTop(forward_open)
           closed == forward_closed \cup {top[2]}
           st == RelaxForward(outgoing_edges(top[2]), top[2], top[3], closed,
                              [ open |-> forward_open \ {top},
                                g_costs |-> forward_g_costs,
                                parents |-> forward_parents ])
       IN
        /\ ~IsMeeting(top[2], backward_closed)
        /\ top[2] \notin forward_closed
        /\ iteration' = iteration + 1
        /\ forward_iterations' = forward_iterations + 1
        /\ forward_closed' = closed
        /\ forward_open' = st.open
        /\ forward_g_costs' = st.g_costs
        /\ forward_parents' = st.parents
        /\ pc' = "backward"
    /\ UNCHANGED << graph_vars, args, other, call_vars, backward_relaxed, backward_vars,
                    backward_iterations, meeting_point, route_path, result >>

\* the forward half does nothing: the heap is empty, or the popped entry is
\* stale (its node is closed forward already)
ForwardSkip ==
    /\ LoopBody
    /\ iteration' = iteration + 1
    /\ IF forward_open = {}
       THEN UNCHANGED << forward_open, forward_iterations >>
       ELSE LET top == HeapTop(forward_open) IN
            /\ ~IsMeeting(top[2], backward_closed)
            /\ top[2] \in forward_closed
            /\ forward_open' = forward_open \ {top}
            /\ forward_iterations' = forward_iterations + 1
    /\ pc' = "backward"
    /\ UNCHANGED << graph_vars, args, other, call_vars, backward_relaxed, forward_closed,
                    forward_g_costs, forward_parents, backward_vars,
                    backward_iterations, meeting_point, route_path, result >>

\* lines 714-723
BackwardMeet ==
    /\ pc = "backward"
    /\ backward_open # {}
    /\ LET top == HeapTop(backward_open) IN
        /\ IsMeeting(top[2], forward_closed)
        /\ backward_iterations' = backward_iterations + 1
        /\ backward_open' = backward_open \ {top}
        /\ meeting_point' = top[2]
        /\ route_path' = merge_bidirectional_paths(top[2], forward_parents, backward_parents)
        /\ pc' = "analyze"
    /\ UNCHANGED << graph_vars, args, other, call_vars, backward_relaxed, forward_vars,
                    backward_closed, backward_g_costs, backward_parents,
                    iteration, forward_iterations, result >>

\* lines 725-754
BackwardExpand ==
    /\ pc = "backward"
    /\ backward_open # {}
    /\ LET top == HeapTop(backward_open)
           closed == backward_closed \cup {top[2]}
           st == RelaxBackward(incoming_edges(top[2]), top[2], top[3], closed,
                               [ open |-> backward_open \ {top},
                                 g_costs |-> backward_g_costs,
                                 parents |-> backward_parents ])
       IN
        /\ ~IsMeeting(top[2], forward_closed)
        /\ top[2] \notin backward_closed
        /\ backward_iterations' = backward_iterations + 1
        /\ backward_closed' = closed
        /\ backward_open' = st.open
        /\ backward_g_costs' = st.g_costs
        /\ backward_parents' = st.parents
        /\ pc' = "search"
    /\ UNCHANGED << graph_vars, args, other, call_vars, backward_relaxed, forward_vars,
                    iteration, forward_iterations, meeting_point, route_path, result >>

BackwardSkip ==
    /\ pc = "backward"
    /\ IF backward_open = {}
       THEN UNCHANGED << backward_open, backward_iterations >>
       ELSE LET top == HeapTop(backward_open) IN
            /\ ~IsMeeting(top[2], forward_closed)
            /\ top[2] \in backward_closed
            /\ backward_open' = backward_open \ {top}
            /\ backward_iterations' = backward_iterations + 1
    /\ pc' = "search"
    /\ UNCHANGED << graph_vars, args, other, call_vars, backward_relaxed, forward_vars,
                    backward_closed, backward_g_costs, backward_parents,
                    iteration, forward_iterations, meeting_point, route_path, result >>

\* lines 756-760: the loop ends without a meeting point
SearchNotFound ==
    /\ pc = "search"
    /\ ~LoopContinues(forward_open, backward_open, iteration)
    /\ route_path' = NoPath
    /\ pc' = "analyze"
    /\ UNCHANGED << graph_vars, args, other, call_vars, backward_relaxed, forward_vars,
                    backward_vars, count_vars, meeting_point, result >>

\* find_optimal_route, lines 372-407
FinishRoute ==
    /\ pc = "analyze"
    /\ IF route_path = NoPath \/ Len(route_path) < 2
       THEN result' = NotFoundSummary(start_node, vehicle_capability)
       ELSE result' \in analyze_route(route_path, vehicle_capability, time_of_day)
    /\ pc' = "done"
    /\ UNCHANGED << graph_vars, args, other, call_vars, backward_relaxed, forward_vars,
                    backward_vars, count_vars, meeting_point, route_path >>

Next ==
    \/ FindOptimalRoute
    \/ ForwardMeet
    \/ ForwardExpand
    \/ ForwardSkip
    \/ BackwardMeet
    \/ BackwardExpand
    \/ BackwardSkip
    \/ SearchNotFound
    \/ FinishRoute

Spec == Init /\ [][Next]_vars

\* a call, once made, runs on: the engine is single-threaded and synchronous
\* and nothing suspends the loop
SearchStep ==
    \/ ForwardMeet \/ ForwardExpand \/ ForwardSkip
    \/ BackwardMeet \/ BackwardExpand \/ BackwardSkip
    \/ SearchNotFound \/ FinishRoute

\* the calls of the fair specification: the default time of day (which no
\* code reads) and one mode of each of the two weightings
FindOptimalRouteDefaultTime ==
    FindOptimalRouteWith({"offpeak"}, {"power_optimized", "balanced"})

FairNext == FindOptimalRouteDefaultTime \/ SearchStep

FairSpec == Init /\ [][FairNext]_vars /\ WF_vars(SearchStep)

(***************************************************************************)
(* _merge_bidirectional_paths on its own: the specification MergeSpec adds *)
(* to the engine's behaviours the calls of the function on arbitrary       *)
(* parent maps: for each direction the meeting point has either no entry   *)
(* or an entry with any path of at most MaxPathLen nodes.                  *)
(***************************************************************************)
SubPaths == UNION { [1 .. k -> Nodes] : k \in 0 .. MaxPathLen }

ParentMaps(m) ==
    {EmptyDict} \cup { Put(EmptyDict, m, [parent |-> NoNode, path |-> sub_path]) :
                         sub_path \in SubPaths }

MergeInit ==
    /\ nodes = [n \in Nodes |-> [gps |-> NodeLat(n), elevation |-> BaseElevation * 100]]
    /\ edges = << >>
    /\ vehicle_db = VehicleDb
    /\ pc = "merge"
    /\ start_node = NoNode /\ end_node = NoNode
    /\ vehicle_capability = NoCapability
    /\ backward_relaxed = NoCapability
    /\ time_of_day = "" /\ mode = ""
    /\ forward_open = {} /\ forward_closed = {}
    /\ forward_g_costs = EmptyDict
    /\ backward_open = {} /\ backward_closed = {}
    /\ backward_g_costs = EmptyDict
    /\ iteration = 0 /\ forward_iterations = 0 /\ backward_iterations = 0
    /\ meeting_point \in Nodes
    /\ forward_parents \in ParentMaps(meeting_point)
    /\ backward_parents \in ParentMaps(meeting_point)
    /\ route_path = NoPath
    /\ result = Pending
    /\ args = NoArgs
    /\ other = NoCall

\* full_path = self._merge_bidirectional_paths(meeting_point, forward_parents,
\*                                             backward_parents)
MergeCall ==
    /\ pc = "merge"
    /\ route_path' = merge_bidirectional_paths(meeting_point, forward_parents,
                                               backward_parents)
    /\ pc' = "merged"
    /\ UNCHANGED << graph_vars, args, other, call_vars, backward_relaxed, forward_vars,
                    backward_vars, count_vars, meeting_point, result >>

MergeNext == Next \/ MergeCall

MergeSpec == (Init \/ MergeInit) /\ [][MergeNext]_vars

(***************************************************************************)
(* The engine's other methods called on their own: the specification       *)
(* UnitSpec starts with one call pending, its arguments in args, and the   *)
(* call returns its value in result.                                       *)
(***************************************************************************)
\* no find_optimal_route is in progress
NoRoute ==
    /\ start_node = NoNode /\ end_node = NoNode
    /\ vehicle_capability = NoCapability
    /\ backward_relaxed = NoCapability
    /\ time_of_day = "" /\ mode = ""
    /\ forward_open = {} /\ forward_closed = {}
    /\ forward_g_costs = EmptyDict /\ forward_parents = EmptyDict
    /\ backward_open = {} /\ backward_closed = {}
    /\ backward_g_costs = EmptyDict /\ backward_parents = EmptyDict
    /\ iteration = 0 /\ forward_iterations = 0 /\ backward_iterations = 0
    /\ meeting_point = NoNode
    /\ route_path = NoPath
    /\ result = Pending
    /\ other = NoCall

\* the call returns: nothing but result and pc changes
Return(value) ==
    /\ result' = value
    /\ pc' = "returned"
    /\ UNCHANGED << graph_vars, args, other, call_vars, backward_relaxed, forward_vars,
                    backward_vars, count_vars, meeting_point, route_path >>

\* analyze_route(route_path, vehicle_capability, time_of_day) for any path of
\* at most MaxPathLen nodes, over the road networks of Init
AnalyzeInit ==
    /\ \E hill \in HillNodes, height \in Heights :
          nodes = [n \in Nodes |->
                     [gps |-> NodeLat(n),
                      elevation |-> BaseElevation * 100 + (IF n = hill THEN height ELSE 0)]]
    /\ \E mask \in RoadNetworks : edges = PickEdges(1, mask)
    /\ vehicle_db = VehicleDb
    /\ pc = "call"
    /\ NoRoute
    /\ \E path \in SubPaths, vehicle_name \in DOMAIN VehicleDb :
          args = [ fn |-> "analyze_route",
                   route_path |-> path,
                   vehicle_capability |-> calculate_vehicle_capability(vehicle_name),
                   time_of_day |-> "offpeak" ]

AnalyzeCall ==
    /\ pc = "call"
    /\ args.fn = "analyze_route"
    /\ \E summary \in analyze_route(args.route_path, args.vehicle_capability,
                                     args.time_of_day) :
          Return(summary)

\* edges that name the nodes 5 and 6, which no road network here has
DanglingEdges ==
    << [from |-> 2, to |-> 5, distance |-> 100, speed_limit |-> 50],
       [from |-> 5, to |-> 1, distance |-> 100, speed_limit |-> 50],
       [from |-> 5, to |-> 6, distance |-> 100, speed_limit |-> 50] >>

RECURSIVE PickFrom(_, _, _)
PickFrom(candidates, i, mask) ==
    IF i > Len(candidates) THEN << >>
    ELSE (IF i \in mask THEN << candidates[i] >> ELSE << >>)
         \o PickFrom(candidates, i + 1, mask)

\* the road networks of at most MaxEdges edges, dangling ones among them
RoadNetworksWithDangling ==
    { PickFrom(CandidateEdges \o DanglingEdges, 1, mask) :
        mask \in { m \in SUBSET (1 .. Len(CandidateEdges) + Len(DanglingEdges)) :
                     Cardinality(m) <= MaxEdges } }

\* the constructor's _build_edge_index() over any such road network
IndexInit ==
    /\ nodes = [n \in Nodes |-> [gps |-> NodeLat(n), elevation |-> BaseElevation * 100]]
    /\ edges \in RoadNetworksWithDangling
    /\ vehicle_db = VehicleDb
    /\ pc = "call"
    /\ NoRoute
    /\ args = [ fn |-> "_build_edge_index" ]

IndexCall ==
    /\ pc = "call"
    /\ args.fn = "_build_edge_index"
    /\ Return(build_edge_index)

\* the vehicle records: every choice of the values below, with any of the
\* five fields missing
VehicleFields == {"hp", "torque_nm", "weight_kg", "fuel_consumption_city", "fuel_type"}
HpValues == {69, 70, 95, 99, 100, 120}
WeightValues == {1000, 1185}
FuelTypes == {"Dizel", "Benzin"}

VehicleSpecs ==
    { [f \in present |-> full[f]] :
        full \in [ hp : HpValues, torque_nm : {200}, weight_kg : WeightValues,
                   fuel_consumption_city : {49}, fuel_type : FuelTypes ],
        present \in SUBSET VehicleFields }

\* calculate_vehicle_capability(vehicle_name) over a database of one vehicle,
\* for its name and for a name the database lacks
CapabilityInit ==
    /\ nodes = [n \in Nodes |-> [gps |-> NodeLat(n), elevation |-> BaseElevation * 100]]
    /\ edges = << >>
    /\ \E vehicle \in VehicleSpecs : vehicle_db = [name \in {"arac"} |-> vehicle]
    /\ pc = "call"
    /\ NoRoute
    /\ \E vehicle_name \in {"arac", "bilinmeyen"} :
          args = [ fn |-> "calculate_vehicle_capability", vehicle_name |-> vehicle_name ]

CapabilityCall ==
    /\ pc = "call"
    /\ args.fn = "calculate_vehicle_capability"
    /\ Return(calculate_vehicle_capability(args.vehicle_name))

\* find_closest_node(lat, lon) for every coordinate of the meridian, over
\* the road networks of Init with the nodes at the latitudes 1, 2, 2, 3 or,
\* moved south by one step, 0, 1, 1, 2
LocateInit ==
    /\ \E south \in {0, 1} :
          nodes = [n \in Nodes |->
                     [gps |-> NodeLat(n) - south, elevation |-> BaseElevation * 100]]
    /\ \E mask \in RoadNetworks : edges = PickEdges(1, mask)
    /\ vehicle_db = VehicleDb
    /\ pc = "call"
    /\ NoRoute
    /\ \E lat \in Coords : args = [ fn |-> "find_closest_node", lat |-> lat ]

LocateCall ==
    /\ pc = "call"
    /\ args.fn = "find_closest_node"
    /\ \E node_id \in find_closest_node(args.lat) : Return(node_id)

\* the vehicles with every field present
FullVehicleSpecs == { vehicle \in VehicleSpecs : DOMAIN vehicle = VehicleFields }

\* the capability calculate_vehicle_capability gives a vehicle, or the copy
\* a_star_search relaxes for its backward search
CapabilityOfCall(vehicle_name, relaxed) ==
    IF relaxed
    THEN relax_thresholds(calculate_vehicle_capability(vehicle_name)).backward_relaxed
    ELSE calculate_vehicle_capability(vehicle_name)

\* the slopes from the comfortable to the maximum threshold of a capability,
\* in hundredths of a percent: every fifth of a percent, and the hundredths
\* next to each threshold
SlopesOf(cap) ==
    { slope \in cap.comfortable_slope - 1 .. cap.maximum_slope + 1 :
        \/ slope % 20 = 0
        \/ \E threshold \in { cap.comfortable_slope, cap.manageable_slope,
                               cap.maximum_slope } : Abs(slope - threshold) <= 1 }

\* calculate_edge_cost(edge, vehicle_capability, time_of_day, mode) for an
\* edge 1 -> 2, with node 2 at a latitude and raised by rise centimetres
EdgeCostArgs(lat, rise, edge, cap, tod, m) ==
    /\ nodes = [n \in Nodes |->
                  [gps |-> IF n = 2 THEN lat ELSE NodeLat(n),
                   elevation |-> BaseElevation * 100 + (IF n = 2 THEN rise ELSE 0)]]
    /\ edges = << edge >>
    /\ pc = "call"
    /\ NoRoute
    /\ args = [ fn |-> "calculate_edge_cost", edge |-> edge,
                vehicle_capability |-> cap, time_of_day |-> tod, mode |-> m ]

\* the slope tiers of every capability: an edge of 100 m on every slope
\* between the comfortable and the maximum threshold, uphill and downhill
PenaltyInit ==
    /\ \E vehicle \in FullVehicleSpecs : vehicle_db = [name \in {"arac"} |-> vehicle]
    /\ \E relaxed \in BOOLEAN :
          \E slope \in SlopesOf(CapabilityOfCall("arac", relaxed)), sign \in {1, 0 - 1} :
              EdgeCostArgs(NodeLat(2), sign * slope, CandidateEdges[1],
                           CapabilityOfCall("arac", relaxed), "offpeak", "balanced")

\* the lengths of the edge 1 -> 2, in hundreds of metres, its speed limits
\* and its slopes, in hundredths of a percent
EdgeLengths == {1, 5, 10, 15, 17}
SpeedLimits == {30, 50, 90}
EdgeSlopes == {0, 300, 0 - 300, 1200, 1774}

\* an edge as long as its end nodes are apart, for every length, speed
\* limit, slope, vehicle of the database, time of day and mode
EdgeCostInit ==
    /\ vehicle_db = VehicleDb
    /\ \E length \in EdgeLengths, speed_limit \in SpeedLimits, slope \in EdgeSlopes :
        \E vehicle_name \in DOMAIN VehicleDb, relaxed \in BOOLEAN :
          \E tod \in TimesOfDay, m \in Modes :
            EdgeCostArgs(NodeLat(1) + length, slope * length,
                         [from |-> 1, to |-> 2, distance |-> 100 * length,
                          speed_limit |-> speed_limit],
                         CapabilityOfCall(vehicle_name, relaxed), tod, m)

EdgeCostCall ==
    /\ pc = "call"
    /\ args.fn = "calculate_edge_cost"
    /\ Return(calculate_edge_cost(args.edge, args.vehicle_capability,
                                  args.time_of_day, args.mode))

UnitInit ==
    \/ AnalyzeInit \/ IndexInit \/ CapabilityInit \/ LocateInit
    \/ PenaltyInit \/ EdgeCostInit

UnitNext == AnalyzeCall \/ IndexCall \/ CapabilityCall \/ LocateCall \/ EdgeCostCall

UnitSpec == UnitInit /\ [][UnitNext]_vars

\* a call made on its own has returned
Returned(fn) == pc = "returned" /\ args # NoArgs /\ args.fn = fn

(***************************************************************************)
(* Two find_optimal_route calls on one engine.  Everything a call works on *)
(* is a local of find_optimal_route or a_star_search (lines 333-370 and    *)
(* 632-657), so a second call has its own copy of it: other holds the      *)
(* locals of the call that is not running, and a switch of threads         *)
(* exchanges them with those of the running call.  The nodes, the edges    *)
(* and the vehicle database are the engine's and are common to both.       *)
(***************************************************************************)
Locals ==
    [ pc |-> pc, start_node |-> start_node, end_node |-> end_node,
      vehicle_capability |-> vehicle_capability,
      backward_relaxed |-> backward_relaxed,
      time_of_day |-> time_of_day, mode |-> mode,
      forward_open |-> forward_open, forward_closed |-> forward_closed,
      forward_g_costs |-> forward_g_costs, forward_parents |-> forward_parents,
      backward_open |-> backward_open, backward_closed |-> backward_closed,
      backward_g_costs |-> backward_g_costs, backward_parents |-> backward_parents,
      iteration |-> iteration, forward_iterations |-> forward_iterations,
      backward_iterations |-> backward_iterations,
      meeting_point |-> meeting_point, route_path |-> route_path,
      result |-> result ]

\* the locals of a call that has not started
IdleLocals ==
    [ pc |-> "idle", start_node |-> NoNode, end_node |-> NoNode,
      vehicle_capability |-> NoCapability, backward_relaxed |-> NoCapability,
      time_of_day |-> "", mode |-> "",
      forward_open |-> {}, forward_closed |-> {},
      forward_g_costs |-> EmptyDict, forward_parents |-> EmptyDict,
      backward_open |-> {}, backward_closed |-> {},
      backward_g_costs |-> EmptyDict, backward_parents |-> EmptyDict,
      iteration |-> 0, forward_iterations |-> 0, backward_iterations |-> 0,
      meeting_point |-> NoNode, route_path |-> NoPath, result |-> Pending ]

\* the locals of the other call become the current ones, all but the closed
\* sets when keep_closed holds
SwitchTo(keep_closed) ==
    /\ other # NoCall
    /\ other' = IF keep_closed
                THEN [Locals EXCEPT !.forward_closed = other.forward_closed,
                                    !.backward_closed = other.backward_closed]
                ELSE Locals
    /\ pc' = other.pc
    /\ start_node' = other.start_node /\ end_node' = other.end_node
    /\ vehicle_capability' = other.vehicle_capability
    /\ backward_relaxed' = other.backward_relaxed
    /\ time_of_day' = other.time_of_day /\ mode' = other.mode
    /\ forward_open' = other.forward_open
    /\ forward_closed' = IF keep_closed THEN forward_closed ELSE other.forward_closed
    /\ forward_g_costs' = other.forward_g_costs
    /\ forward_parents' = other.forward_parents
    /\ backward_open' = other.backward_open
    /\ backward_closed' = IF keep_closed THEN backward_closed ELSE other.backward_closed
    /\ backward_g_costs' = other.backward_g_costs
    /\ backward_parents' = other.backward_parents
    /\ iteration' = other.iteration
    /\ forward_iterations' = other.forward_iterations
    /\ backward_iterations' = other.backward_iterations
    /\ meeting_point' = other.meeting_point
    /\ route_path' = other.route_path
    /\ result' = other.result
    /\ UNCHANGED << graph_vars, args >>

\* Switch with the two closed sets kept in the engine, common to both calls
Switch_SharedClosedSets == SwitchTo(TRUE)

\* the other call runs on: lines 642-657 allocate every set and map of the
\* search in the call's own frame
Switch == SwitchTo(FALSE)

\* the road networks that hold the diamond 1 -> 2 -> 4, 1 -> 3 -> 4
DiamondNetworks == { mask \in RoadNetworks : {1, 2, 3, 4} \subseteq mask }

ConcurrentInit ==
    /\ \E hill \in HillNodes, height \in Heights :
          nodes = [n \in Nodes |->
                     [gps |-> NodeLat(n),
                      elevation |-> BaseElevation * 100 + (IF n = hill THEN height ELSE 0)]]
    /\ \E mask \in DiamondNetworks : edges = PickEdges(1, mask)
    /\ vehicle_db = VehicleDb
    /\ pc = "idle"
    /\ start_node = NoNode /\ end_node = NoNode
    /\ vehicle_capability = NoCapability
    /\ backward_relaxed = NoCapability
    /\ time_of_day = "" /\ mode = ""
    /\ forward_open = {} /\ forward_closed = {}
    /\ forward_g_costs = EmptyDict /\ forward_parents = EmptyDict
    /\ backward_open = {} /\ backward_closed = {}
    /\ backward_g_costs = EmptyDict /\ backward_parents = EmptyDict
    /\ iteration = 0 /\ forward_iterations = 0 /\ backward_iterations = 0
    /\ meeting_point = NoNode
    /\ route_path = NoPath
    /\ result = Pending
    /\ args = NoArgs
    /\ other = IdleLocals

FindOptimalRouteBalanced == FindOptimalRouteWith({"offpeak"}, {"balanced"})

ConcurrentNext == FindOptimalRouteBalanced \/ SearchStep \/ Switch

ConcurrentSpec == ConcurrentInit /\ [][ConcurrentNext]_vars

(***************************************************************************)
(* a_star_search run in one piece from given open lists, closed sets, cost *)
(* maps and parent maps: the path the running call returns when nothing    *)
(* else runs.  f and b are records [open, g_costs, parents].               *)
(***************************************************************************)
\* lines 672-707
ForwardHalf(f, fclosed, bclosed) ==
    IF f.open = {} THEN [meet |-> NoNode, st |-> f, closed |-> fclosed]
    ELSE LET top == HeapTop(f.open)
             popped == [f EXCEPT !.open = f.open \ {top}]
         IN  IF IsMeeting(top[2], bclosed)
             THEN [meet |-> top[2], st |-> popped, closed |-> fclosed]
             ELSE IF top[2] \in fclosed
             THEN [meet |-> NoNode, st |-> popped, closed |-> fclosed]
             ELSE [meet |-> NoNode,
                   st |-> RelaxForward(outgoing_edges(top[2]), top[2], top[3],
                                       fclosed \cup {top[2]}, popped),
                   closed |-> fclosed \cup {top[2]}]

\* lines 710-754
BackwardHalf(b, bclosed, fclosed) ==
    IF b.open = {} THEN [meet |-> NoNode, st |-> b, closed |-> bclosed]
    ELSE LET top == HeapTop(b.open)
             popped == [b EXCEPT !.open = b.open \ {top}]
         IN  IF IsMeeting(top[2], fclosed)
             THEN [meet |-> top[2], st |-> popped, closed |-> bclosed]
             ELSE IF top[2] \in bclosed
             THEN [meet |-> NoNode, st |-> popped, closed |-> bclosed]
             ELSE [meet |-> NoNode,
                   st |-> RelaxBackward(incoming_edges(top[2]), top[2], top[3],
                                        bclosed \cup {top[2]}, popped),
                   closed |-> bclosed \cup {top[2]}]

\* lines 663-760
RECURSIVE SearchAlone(_, _, _, _, _)
SearchAlone(f, fclosed, b, bclosed, it) ==
    IF ~LoopContinues(f.open, b.open, it) THEN NoPath
    ELSE CHOOSE path \in
      { IF fh.meet # NoNode
        THEN merge_bidirectional_paths(fh.meet, fh.st.parents, b.parents)
        ELSE CHOOSE rest \in
          { IF bh.meet # NoNode
            THEN merge_bidirectional_paths(bh.meet, fh.st.parents, bh.st.parents)
            ELSE SearchAlone(fh.st, fh.closed, bh.st, bh.closed, it + 1) :
              bh \in { BackwardHalf(b, bclosed, fh.closed) } } : TRUE :
          fh \in { ForwardHalf(f, fclosed, bclosed) } } : TRUE

\* the path a_star_search returns for the running call's start and end
\* node, lines 642-657 giving the initial lists and maps
PathAlone ==
    SearchAlone([ open |-> { << 0, start_node, << start_node >> >> },
                  g_costs |-> Put(EmptyDict, start_node, 0),
                  parents |-> Put(EmptyDict, start_node,
                                  [parent |-> NoNode, path |-> << start_node >>]) ],
                {},
                [ open |-> { << 0, end_node, << end_node >> >> },
                  g_costs |-> Put(EmptyDict, end_node, 0),
                  parents |-> Put(EmptyDict, end_node,
                                  [parent |-> NoNode, path |-> << end_node >>]) ],
                {}, 0)

\* the summaries find_optimal_route returns for that path, lines 372-407
ResultsAlone ==
    UNION { IF path = NoPath \/ Len(path) < 2
            THEN { NotFoundSummary(start_node, vehicle_capability) }
            ELSE analyze_route(path, vehicle_capability, time_of_day) :
              path \in { PathAlone } }

(***************************************************************************)
(* Two find_optimal_route calls made one after the other on one engine,    *)
(* for the same start and end node, the second with another mode, another  *)
(* time of day or another vehicle.  other holds the locals of the first    *)
(* call once it has returned.                                              *)
(***************************************************************************)
PairInit ==
    /\ \E hill \in HillNodes, height \in Heights :
          nodes = [n \in Nodes |->
                     [gps |-> NodeLat(n),
                      elevation |-> BaseElevation * 100 + (IF n = hill THEN height ELSE 0)]]
    /\ \E mask \in RoadNetworks : edges = PickEdges(1, mask)
    /\ vehicle_db = VehicleDb
    /\ pc = "idle"
    /\ start_node = NoNode /\ end_node = NoNode
    /\ vehicle_capability = NoCapability
    /\ backward_relaxed = NoCapability
    /\ time_of_day = "" /\ mode = ""
    /\ forward_open = {} /\ forward_closed = {}
    /\ forward_g_costs = EmptyDict /\ forward_parents = EmptyDict
    /\ backward_open = {} /\ backward_closed = {}
    /\ backward_g_costs = EmptyDict /\ backward_parents = EmptyDict
    /\ iteration = 0 /\ forward_iterations = 0 /\ backward_iterations = 0
    /\ meeting_point = NoNode
    /\ route_path = NoPath
    /\ result = Pending
    /\ args = NoArgs
    /\ other = IdleLocals

\* the first call, at peak time, in a mode with equal weights or in
\* power_optimized
FirstCall ==
    /\ other = IdleLocals
    /\ FindOptimalRouteWith({"peak"}, {"fuel_saver", "power_optimized"})

\* the first call has returned from its search; its locals are set aside
\* and the second call gets fresh ones
CallAgain ==
    /\ pc = "done"
    /\ forward_g_costs # EmptyDict
    /\ other = IdleLocals
    /\ Switch

\* the arguments of the second call: those of the first with another mode
\* of equal weights, with the other time of day, or with another vehicle of
\* the database
SecondArguments ==
    LET first == [ vehicle_name |-> other.vehicle_capability.vehicle_name,
                   time_of_day |-> other.time_of_day, mode |-> other.mode ]
    IN  { [first EXCEPT !.mode = m] :
            m \in IF first.mode = "power_optimized" THEN {}
                  ELSE Modes \ {"power_optimized", first.mode} }
        \cup { [first EXCEPT !.time_of_day = tod] : tod \in TimesOfDay \ {first.time_of_day} }
        \cup { [first EXCEPT !.vehicle_name = name] :
                 name \in DOMAIN vehicle_db \ {first.vehicle_name} }

\* find_optimal_route called again for the same coordinates, which
\* find_closest_node maps to the same nodes
SecondCall ==
    /\ pc = "idle"
    /\ other # IdleLocals
    /\ \E second \in SecondArguments :
          EnterRoute(calculate_vehicle_capability(second.vehicle_name),
                     other.start_node, other.end_node,
                     second.time_of_day, second.mode)

PairNext == FirstCall \/ SearchStep \/ CallAgain \/ SecondCall

PairSpec == PairInit /\ [][PairNext]_vars

TypeOK ==
    /\ pc \in {"idle", "search", "backward", "analyze", "done", "merge", "merged",
               "call", "returned"}
    /\ iteration \in 0 .. MaxIterations
    /\ forward_closed \subseteq Nodes
    /\ backward_closed \subseteq Nodes

(***************************************************************************)
(* Properties of find_optimal_route                                        *)
(***************************************************************************)
\* a_star_search was entered in this call: its set-up has run
SearchEntered == forward_g_costs # EmptyDict

\* one of the three immediate failures holds of the call's resolved inputs
ImmediateFailure ==
    \/ vehicle_capability = NoCapability
    \/ start_node = NoNode
    \/ end_node = NoNode
    \/ start_node = end_node

SummaryFields ==
    {"path", "segments", "total_distance", "total_fuel", "total_time",
     "max_slope", "critical_sections"}

\* C1: when the search ends without a meeting point (or with a path of fewer
\* than two nodes) find_optimal_route returns a summary with no segments, zero
\* distance, fuel, time, max slope and critical sections, and an error
\* marker; a summary returned for a found path carries no error marker.
C1_NotFoundIsDegenerateSummary ==
    (pc = "done" /\ SearchEntered) =>
        /\ result.kind = "Summary"
        /\ IF route_path = NoPath \/ Len(route_path) < 2
           THEN /\ result.segments = << >>
                /\ result.total_distance = 0
                /\ result.total_fuel = 0
                /\ result.total_time = 0
                /\ result.max_slope = 0
                /\ result.critical_sections = 0
                /\ "error" \in DOMAIN result
           ELSE /\ "error" \notin DOMAIN result
                /\ result.path = route_path

C1_Witness ==
    /\ pc = "done"
    /\ SearchEntered
    /\ route_path = NoPath
    /\ "error" \in DOMAIN result
    /\ result.segments = << >>

\* C2 as stated: every call returns a value of summary shape, the immediate
\* failures included.
C2_AlwaysSummary ==
    pc = "done" => (result.kind = "Summary" /\ SummaryFields \subseteq DOMAIN result)

\* C2 amended: a call returns a value of summary shape exactly when the
\* vehicle is known, both coordinates resolve to a node and the two nodes
\* differ; in the three immediate-failure cases it returns None.
C2_SummaryOrNone ==
    pc = "done" =>
        IF ImmediateFailure
        THEN result = NoneResult
        ELSE result.kind = "Summary" /\ SummaryFields \subseteq DOMAIN result

\* the end coordinate has no node within the radius: None comes back
C2_Witness ==
    /\ pc = "done"
    /\ vehicle_capability # NoCapability
    /\ start_node # NoNode
    /\ end_node = NoNode
    /\ result = NoneResult

\* C3: with an invalid vehicle, an unlocatable coordinate or start and end
\* on the same node, the call ends before a_star_search: its set-up never
\* runs, nothing is popped and no node is added to a closed set.
C3_NoSearchOnImmediateFailure ==
    (pc # "idle" /\ ImmediateFailure) =>
        /\ pc = "done"
        /\ ~SearchEntered
        /\ forward_open = {} /\ backward_open = {}
        /\ forward_closed = {} /\ backward_closed = {}
        /\ backward_g_costs = EmptyDict
        /\ iteration = 0 /\ forward_iterations = 0 /\ backward_iterations = 0
        /\ meeting_point = NoNode

\* start and end resolve to the same node and the call is over
C3_Witness ==
    /\ pc = "done"
    /\ start_node # NoNode
    /\ start_node = end_node
    /\ ~SearchEntered
    /\ result = NoneResult

(***************************************************************************)
(* Properties of a_star_search                                             *)
(***************************************************************************)
\* C4 as stated: forward pops plus backward pops never exceed the cap.
C4_TotalPopsWithinCap ==
    forward_iterations + backward_iterations <= MaxIterations

\* C4 amended: the cap bounds the loop iterations; each iteration pops at
\* most once in each direction, so each direction's pops are bounded by the
\* iterations (and their sum by twice the cap); a search that ends with no
\* meeting point, the cap reached or not, signals not-found.
C4_CapBoundsLoopIterations ==
    /\ iteration <= MaxIterations
    /\ forward_iterations <= iteration
    /\ backward_iterations <= iteration
    /\ forward_iterations + backward_iterations <= 2 * MaxIterations
    /\ (pc \in {"analyze", "done"} /\ SearchEntered /\ meeting_point = NoNode)
          => route_path = NoPath
    /\ (pc = "done" /\ SearchEntered /\ meeting_point = NoNode)
          => "error" \in DOMAIN result

\* the cap ended the search: frontier entries were left, nothing had met,
\* and more nodes were popped than the cap
C4_Witness ==
    /\ pc = "analyze"
    /\ iteration = MaxIterations
    /\ forward_open # {}
    /\ meeting_point = NoNode
    /\ route_path = NoPath
    /\ forward_iterations + backward_iterations > MaxIterations

\* C5: a_star_search terminates: a search that has started eventually
\* returns, and when it returns not-found both frontiers are empty or the
\* cap is reached.
C5_SearchTerminates ==
    /\ (pc = "search") ~> (pc = "analyze")
    /\ [](pc = "analyze" /\ route_path = NoPath =>
            \/ forward_open = {} /\ backward_open = {}
            \/ iteration = MaxIterations)

\* the search ended because both frontiers ran empty, before the cap
C5_Witness ==
    /\ pc = "analyze"
    /\ route_path = NoPath
    /\ forward_open = {} /\ backward_open = {}
    /\ forward_closed # {}
    /\ iteration < MaxIterations

\* the nodes that the directed edges lead to from the nodes of S
RECURSIVE ReachSet(_)
ReachSet(S) ==
    LET T == S \cup { edges[i].to : i \in { j \in DOMAIN edges : edges[j].from \in S } }
    IN  IF T = S THEN S ELSE ReachSet(T)

\* the 4-node diamond 1 -> 2 -> 4, 1 -> 3 -> 4 of equal lengths
IsDiamond == edges = PickEdges(1, {1, 2, 3, 4})

\* C6: when a directed path leads from the start node to the end node and
\* the search does not stop at the iteration cap, a_star_search returns a
\* path from start to end, not not-found; on the diamond the path has
\* exactly 3 nodes: the start, one of the two intermediates, the end.
C6_ReachableEndIsFound ==
    (pc \in {"analyze", "done"} /\ SearchEntered
       /\ end_node \in ReachSet({start_node})) =>
        /\ iteration < MaxIterations =>
              /\ route_path # NoPath
              /\ Len(route_path) >= 2
              /\ route_path[1] = start_node
              /\ route_path[Len(route_path)] = end_node
        /\ (IsDiamond /\ start_node = 1 /\ end_node = 4) =>
              /\ Len(route_path) = 3
              /\ route_path[1] = 1
              /\ route_path[2] \in {2, 3}
              /\ route_path[3] = 4

\* the diamond, searched from its source to its sink
C6_Witness ==
    /\ pc = "done"
    /\ IsDiamond /\ start_node = 1 /\ end_node = 4
    /\ Len(route_path) = 3
    /\ "error" \notin DOMAIN result

(***************************************************************************)
(* The meeting point                                                       *)
(***************************************************************************)
\* C7 as stated: when a path is returned, the meeting node is in both
\* closed sets.
C7_MeetingInBothClosedSets ==
    meeting_point # NoNode =>
        /\ meeting_point \in forward_closed
        /\ meeting_point \in backward_closed

\* C7 amended: the two closed sets never share a node.  The meeting node is
\* the first popped node found in the other direction's closed set: it is
\* in exactly one closed set (the search returns before adding it to the
\* popping direction's own), it has a recorded path in both directions, and
\* the search stops there.
C7_MeetingInOtherClosedSet ==
    /\ forward_closed \cap backward_closed = {}
    /\ meeting_point # NoNode =>
          /\ pc \in {"analyze", "done"}
          /\ (meeting_point \in forward_closed) # (meeting_point \in backward_closed)
          /\ meeting_point \in DOMAIN forward_parents
          /\ meeting_point \in DOMAIN backward_parents
          /\ route_path # NoPath
    /\ (pc \in {"search", "backward"}) => meeting_point = NoNode

\* a meeting found by the backward pop: the node is closed forward only
C7_Witness ==
    /\ pc = "analyze"
    /\ meeting_point # NoNode
    /\ meeting_point \in forward_closed
    /\ meeting_point \notin backward_closed
    /\ backward_closed # {}

(***************************************************************************)
(* Properties of _merge_bidirectional_paths                                *)
(***************************************************************************)
\* the two sub-paths recorded for the meeting point ([] when it has no entry)
ForwardSubPath == Get(forward_parents, meeting_point, NoParent).path
BackwardSubPath == Get(backward_parents, meeting_point, NoParent).path

Occurrences(path, n) == Cardinality({ i \in 1 .. Len(path) : path[i] = n })

\* the merge has been done: on its own, or at a meeting point of the search
Merged ==
    \/ pc = "merged"
    \/ pc \in {"analyze", "done"} /\ meeting_point # NoNode

\* C8 as stated: for every pair of sub-paths the merged path has
\* len(forward) + len(backward) - 1 nodes.
C8_MergedLengthForEveryPair ==
    Merged => Len(route_path) = Len(ForwardSubPath) + Len(BackwardSubPath) - 1

\* C8 amended: when both sub-paths are non-empty the merged path is the
\* forward path followed by the reversed backward path without its first
\* element, of length len(forward) + len(backward) - 1; when a sub-path is
\* empty or missing the merged path is the other one (the backward one
\* reversed).  At every meeting point of a_star_search both sub-paths are
\* non-empty and end at the meeting node, which the merged path holds once.
C8_MergedPath ==
    Merged =>
        /\ (ForwardSubPath # << >> /\ BackwardSubPath # << >>) =>
              /\ Len(route_path) = Len(ForwardSubPath) + Len(BackwardSubPath) - 1
              /\ \A i \in 1 .. Len(ForwardSubPath) : route_path[i] = ForwardSubPath[i]
              /\ \A i \in 1 .. Len(BackwardSubPath) - 1 :
                    route_path[Len(ForwardSubPath) + i]
                      = BackwardSubPath[Len(BackwardSubPath) - i]
        /\ ForwardSubPath = << >> => route_path = Reverse(BackwardSubPath)
        /\ (ForwardSubPath # << >> /\ BackwardSubPath = << >>) =>
              route_path = ForwardSubPath
        /\ pc # "merged" =>
              /\ ForwardSubPath # << >> /\ BackwardSubPath # << >>
              /\ ForwardSubPath[Len(ForwardSubPath)] = meeting_point
              /\ BackwardSubPath[Len(BackwardSubPath)] = meeting_point
              /\ Occurrences(route_path, meeting_point) = 1

\* two non-empty sub-paths merged on their own
C8_Witness ==
    /\ pc = "merged"
    /\ Len(ForwardSubPath) = 2 /\ Len(BackwardSubPath) = 2
    /\ Len(route_path) = 3

\* a meeting point of the search with two sub-paths of two nodes each
C8_WitnessSearch ==
    /\ pc = "analyze"
    /\ meeting_point # NoNode
    /\ Len(ForwardSubPath) = 2 /\ Len(BackwardSubPath) = 2
    /\ Len(route_path) = 3

(***************************************************************************)
(* Impassable edges and the capability the costs are computed under        *)
(***************************************************************************)
\* C9 as stated: no returned path traverses an edge that is impassable for
\* the vehicle.
C9_NoImpassableEdgeOnPath ==
    (pc = "done" /\ result.kind = "Summary") =>
        \A i \in 1 .. Len(result.segments) : result.segments[i].passable

\* some edge from -> to is passable under the relaxed backward thresholds
PassableRelaxed(from, to) ==
    \E i \in DOMAIN edges :
        /\ edges[i].from = from /\ edges[i].to = to
        /\ calculate_edge_cost(edges[i], backward_relaxed, time_of_day, mode).passable

\* the backward leg of the returned path, from the meeting node to the end
BackwardLeg == Reverse(BackwardSubPath)

\* C9 amended: the backward search never relaxes an edge that is impassable
\* under its relaxed (x1.4) thresholds unless the edge enters the
\* destination node; so every edge of the backward leg of a returned path
\* is passable under the relaxed thresholds or is the edge into the
\* destination.  (The forward search relaxes edges whatever their slope, and
\* a returned path may traverse impassable edges.)
C9_BackwardSkipsImpassable ==
    SearchEntered =>
        /\ \A n \in DOMAIN backward_parents :
              backward_parents[n].parent # NoNode =>
                 \/ backward_parents[n].parent = end_node
                 \/ PassableRelaxed(n, backward_parents[n].parent)
        /\ (pc \in {"analyze", "done"} /\ meeting_point # NoNode) =>
              \A i \in 1 .. Len(BackwardLeg) - 1 :
                 \/ BackwardLeg[i + 1] = end_node
                 \/ PassableRelaxed(BackwardLeg[i], BackwardLeg[i + 1])

\* the backward search has expanded a node other than the destination and
\* left an impassable edge into it unrelaxed
C9_Witness ==
    /\ SearchEntered
    /\ \E i \in DOMAIN edges :
          /\ edges[i].to \in backward_closed
          /\ edges[i].to # end_node
          /\ edges[i].from \notin DOMAIN backward_parents
          /\ ~PassableRelaxed(edges[i].from, edges[i].to)

\* the capability calculate_vehicle_capability gave the call
OriginalCapability == calculate_vehicle_capability(vehicle_capability.vehicle_name)

\* the segment analyze_route reports for the i-th pair of the returned path
\* when it costs the edge under the original capability and 'balanced'
OriginalSegment(i) ==
    SegmentOf(FindEdge(route_path[i], route_path[i + 1])[1],
              calculate_edge_cost(FindEdge(route_path[i], route_path[i + 1])[1],
                                  OriginalCapability, time_of_day, "balanced"))

\* C10: a_star_search leaves the caller's capability as it was and relaxes
\* the thresholds by 1.4 on its own copy only; analyze_route costs every
\* segment under the unmodified capability and the mode 'balanced', so each
\* segment's tier and passable flag are those of the original thresholds.
C10_AnalysisUnderOriginalCapability ==
    SearchEntered =>
        /\ vehicle_capability = OriginalCapability
        /\ backward_relaxed.comfortable_slope
              = (OriginalCapability.comfortable_slope * 14) \div 10
        /\ backward_relaxed.manageable_slope
              = (OriginalCapability.manageable_slope * 14) \div 10
        /\ backward_relaxed.maximum_slope
              = (OriginalCapability.maximum_slope * 14) \div 10
        /\ (pc = "done" /\ "error" \notin DOMAIN result) =>
              /\ result.vehicle_capability = OriginalCapability
              /\ Len(result.segments) = Len(route_path) - 1
              /\ \A i \in 1 .. Len(result.segments) :
                    /\ result.segments[i] = OriginalSegment(i)
                    /\ result.segments[i].difficulty_level
                          = DifficultyLevel(Abs(result.segments[i].slope),
                                            OriginalCapability)
                    /\ result.segments[i].passable
                          = (Abs(result.segments[i].slope)
                               <= OriginalCapability.maximum_slope)

\* a summary with a segment whose tier under the relaxed thresholds differs
\* from the tier it reports
C10_Witness ==
    /\ pc = "done"
    /\ SearchEntered
    /\ "error" \notin DOMAIN result
    /\ \E i \in 1 .. Len(result.segments) :
          /\ result.segments[i].difficulty_level
                # DifficultyLevel(Abs(result.segments[i].slope), backward_relaxed)
          /\ result.segments[i].difficulty_level
                = DifficultyLevel(Abs(result.segments[i].slope), vehicle_capability)

(***************************************************************************)
(* Properties of analyze_route on the paths the search returns             *)
(***************************************************************************)
\* a route was found and analysed
RouteAnalysed == pc = "done" /\ SearchEntered /\ "error" \notin DOMAIN result

\* the edges of the list that lead from one node to another, by position
EdgesBetween(from_node, to_node) ==
    { j \in DOMAIN edges : edges[j].from = from_node /\ edges[j].to = to_node }

RECURSIVE DistanceSum(_, _)
DistanceSum(segs, n) ==
    IF n = 0 THEN 0 ELSE segs[n].distance + DistanceSum(segs, n - 1)

\* C11 as stated, with the edges the path traverses read as the edges the
\* search relaxed: the summary has one segment per consecutive pair, its
\* total distance is the sum of the segments' distances, and the distance it
\* reports for the forward leg is the distance the forward search
\* accumulated along that leg.
C11_TotalIsTraversedDistance ==
    RouteAnalysed =>
        /\ Len(result.segments) = Len(route_path) - 1
        /\ result.total_distance
              \in RoundOutcomes(DistanceSum(result.segments, Len(result.segments)), 10)
        /\ DistanceSum(result.segments, Len(ForwardSubPath) - 1)
              = forward_g_costs[meeting_point]

\* C11: the summary of a returned path has len(path) - 1 segments, the i-th
\* one from path[i] to path[i+1] with the distance of the first edge listed
\* between the two, and its total distance is the sum of those distances
\* in km rounded to two decimals; where one edge joins each pair of the
\* forward leg this is the distance the forward search accumulated.
C11_OneSegmentPerPair ==
    RouteAnalysed =>
        /\ Len(result.segments) = Len(route_path) - 1
        /\ \A i \in 1 .. Len(result.segments) :
              /\ result.segments[i].from = route_path[i]
              /\ result.segments[i].to = route_path[i + 1]
              /\ \E j \in EdgesBetween(route_path[i], route_path[i + 1]) :
                    /\ result.segments[i].distance = edges[j].distance
                    /\ \A k \in EdgesBetween(route_path[i], route_path[i + 1]) : j <= k
        /\ result.total_distance
              \in RoundOutcomes(DistanceSum(result.segments, Len(result.segments)), 10)
        /\ (\A i \in 1 .. Len(ForwardSubPath) - 1 :
               Cardinality(EdgesBetween(route_path[i], route_path[i + 1])) = 1)
              => DistanceSum(result.segments, Len(ForwardSubPath) - 1)
                    = forward_g_costs[meeting_point]

\* a route of two segments whose first pair is joined by two edges, the
\* search having relaxed the shorter one and the summary reporting the first
C11_Witness ==
    /\ RouteAnalysed
    /\ Len(result.segments) = 2
    /\ Cardinality(EdgesBetween(route_path[1], route_path[2])) = 2
    /\ DistanceSum(result.segments, Len(ForwardSubPath) - 1)
          # forward_g_costs[meeting_point]

\* the segments of the summary with one of the given difficulty tiers
SegmentsOfTier(tiers) ==
    { i \in 1 .. Len(result.segments) : result.segments[i].difficulty_level \in tiers }

\* the largest absolute slope over the segments, in hundredths of a percent
LargestAbsSlope ==
    CHOOSE m \in {0} \cup { Abs(result.segments[i].slope) : i \in 1 .. Len(result.segments) } :
        \A i \in 1 .. Len(result.segments) : Abs(result.segments[i].slope) <= m

\* C12 as stated: the critical-section count is the number of segments of
\* tier 'manageable' or 'difficult', and max slope equals the largest
\* absolute slope over the segments.
C12_MaxSlopeIsLargestSlope ==
    RouteAnalysed =>
        /\ result.critical_sections
              = Cardinality(SegmentsOfTier({"manageable", "difficult"}))
        /\ result.max_slope * 10 = LargestAbsSlope

\* C12: the critical-section count is the number of segments of tier
\* 'manageable' or 'difficult' (segments of tier 'comfortable' or
\* 'impassable' are not counted), and max slope is the largest absolute
\* slope over the segments rounded to one decimal, the segments' slopes
\* having two.
C12_CriticalCountAndRoundedMaxSlope ==
    RouteAnalysed =>
        /\ result.critical_sections
              = Cardinality(SegmentsOfTier({"manageable", "difficult"}))
        /\ result.critical_sections
              = Len(result.segments)
                  - Cardinality(SegmentsOfTier({"comfortable", "impassable"}))
        /\ result.max_slope \in RoundOutcomes(LargestAbsSlope, 10)
        /\ \A i \in 1 .. Len(result.segments) :
              Abs(result.segments[i].slope) <= result.max_slope * 10 + 5

\* a summary with a comfortable segment and critical ones, whose max slope
\* differs from the largest slope of its segments in the second decimal
C12_Witness ==
    /\ RouteAnalysed
    /\ SegmentsOfTier({"comfortable"}) # {}
    /\ result.critical_sections >= 1
    /\ result.max_slope * 10 # LargestAbsSlope

\* a summary with an impassable segment, which is not counted as critical
C12_WitnessImpassable ==
    /\ RouteAnalysed
    /\ SegmentsOfTier({"impassable"}) # {}
    /\ result.critical_sections = 0

\* the summary has zero totals and no segments
ZeroSummary ==
    /\ result.kind = "Summary"
    /\ result.segments = << >>
    /\ result.total_distance = 0 /\ result.total_fuel = 0
    /\ result.fuel_cost = 0 /\ result.total_time = 0
    /\ result.max_slope = 0 /\ result.critical_sections = 0

\* C13 as stated: for a path of fewer than two nodes analyze_route returns a
\* summary with zero totals, no segments, and an error marker.
C13_ShortPathGivesErrorMarker ==
    (Returned("analyze_route") /\ Len(args.route_path) < 2) =>
        /\ ZeroSummary
        /\ "error" \in DOMAIN result

\* C13: for a path of fewer than two nodes analyze_route does not fail and
\* returns a summary with that path, zero totals and no segments, and no
\* error marker.
C13_ShortPathGivesZeroSummary ==
    (Returned("analyze_route") /\ Len(args.route_path) < 2) =>
        /\ ZeroSummary
        /\ result.path = args.route_path
        /\ "error" \notin DOMAIN result

\* analyze_route has returned for a path of a single node
C13_Witness ==
    /\ Returned("analyze_route")
    /\ Len(args.route_path) = 1
    /\ ZeroSummary

(***************************************************************************)
(* Properties of _build_edge_index                                         *)
(***************************************************************************)
\* how often an edge occurs in the list an index keeps for a node
TimesIndexed(index, n, edge) ==
    IF n \notin DOMAIN index THEN 0
    ELSE Cardinality({ k \in DOMAIN index[n] : index[n][k] = edge })

\* C14 as stated: after _build_edge_index an edge with a dangling endpoint
\* is in neither index, and every other edge is exactly once in
\* outgoing[from] and exactly once in incoming[to].
C14_DanglingEdgesExcluded ==
    Returned("_build_edge_index") =>
        \A i \in DOMAIN edges :
            LET edge == edges[i]
                both == edge.from \in DOMAIN nodes /\ edge.to \in DOMAIN nodes
                times == IF both THEN 1 ELSE 0
            IN  /\ TimesIndexed(result.outgoing_edges, edge.from, edge) = times
                /\ TimesIndexed(result.incoming_edges, edge.to, edge) = times

\* what the code does: every edge of the list, dangling or not, is exactly
\* once in outgoing[from] and exactly once in incoming[to]
C14_EveryEdgeIndexed ==
    Returned("_build_edge_index") =>
        \A i \in DOMAIN edges :
            /\ TimesIndexed(result.outgoing_edges, edges[i].from, edges[i]) = 1
            /\ TimesIndexed(result.incoming_edges, edges[i].to, edges[i]) = 1

\* the index was built over a network with an edge to a node that is absent
C14_Witness ==
    /\ Returned("_build_edge_index")
    /\ \E i \in DOMAIN edges :
          /\ edges[i].from \in DOMAIN nodes
          /\ edges[i].to \notin DOMAIN nodes
          /\ TimesIndexed(result.outgoing_edges, edges[i].from, edges[i]) = 1

(***************************************************************************)
(* Properties of calculate_vehicle_capability                              *)
(***************************************************************************)
\* the record the database holds for the vehicle of the call (empty if none)
VehicleOfCall == Get(vehicle_db, args.vehicle_name, << >>)

\* the three thresholds of the returned capability
Thresholds ==
    << result.comfortable_slope, result.manageable_slope, result.maximum_slope >>

\* the claim's table: by hp / weight_kg * 1000 against 70 and 100, plus the
\* diesel bonus (hundredths of a percent)
ExpectedThresholds(hp, weight_kg, diesel) ==
    LET tier == IF hp * 1000 < 70 * weight_kg THEN 1
                ELSE IF hp * 1000 < 100 * weight_kg THEN 2 ELSE 3
        base == << << 800, 1200, 1500 >>, << 1000, 1500, 1800 >>,
                   << 1200, 1800, 2200 >> >>[tier]
    IN  IF diesel THEN << base[1] + 100, base[2] + 150, base[3] + 200 >> ELSE base

C16_WitnessBoundary ==
    /\ Returned("calculate_vehicle_capability")
    /\ {"hp", "weight_kg", "fuel_type"} \subseteq DOMAIN VehicleOfCall
    /\ VehicleOfCall.hp * 1000 = 70 * VehicleOfCall.weight_kg
    /\ result # NoCapability

\* the required fields of a vehicle record
RequiredFields == {"hp", "torque_nm", "weight_kg", "fuel_type"}

CityConsumption == vehicle_db[vehicle_capability.vehicle_name].fuel_consumption_city

\* (consumption / 100) * distance_km * fuel_multiplier(category) in
\* millilitres, as rounded by the code, for a consumption in tenths
FuelOf(consumption, seg) ==
    RoundHalfEven((consumption * seg.distance
                     * vehicle_capability.fuel_multipliers[seg.category]) \div 100,
                  1000)

\* C18 as stated: the fuel of every edge of the route is the vehicle's city
\* consumption per 100 km / 100 x distance_km x fuel_multiplier(category).
C18_FuelFromCityConsumption ==
    RouteAnalysed =>
        \A i \in 1 .. Len(result.segments) :
            result.segments[i].fuel_consumption
                = FuelOf(CityConsumption, result.segments[i])

\* what the code does: the fuel of every edge is 6.0 / 100 x distance_km x
\* fuel_multiplier(category), whatever the vehicle
C18_FuelFromDefaultConsumption ==
    RouteAnalysed =>
        \A i \in 1 .. Len(result.segments) :
            result.segments[i].fuel_consumption
                = FuelOf(DefaultCityConsumptionTenths, result.segments[i])

\* a route analysed for the vehicle whose city consumption is 4.9 l / 100 km,
\* with a flat segment of 100 m costed at 6 ml
C18_Witness ==
    /\ RouteAnalysed
    /\ CityConsumption = 49
    /\ \E i \in 1 .. Len(result.segments) :
          /\ result.segments[i].category = "flat"
          /\ result.segments[i].distance = 100
          /\ result.segments[i].fuel_consumption = 6

(***************************************************************************)
(* Properties of find_closest_node                                         *)
(***************************************************************************)
\* the distance in metres from the coordinate of the call to a graph node
DistanceTo(n) == 100 * Abs(nodes[n].gps - args.lat)

\* the graph nodes that lie within the search radius of the coordinate
NodesWithinRadius == { n \in DOMAIN nodes : DistanceTo(n) < SearchRadius }

\* ten times connectivity_score x 100 - distance_meters / 10
ScoreOf(n) ==
    (Cardinality({ i \in DOMAIN edges : edges[i].from = n })
       + Cardinality({ i \in DOMAIN edges : edges[i].to = n })) * 1000
    - DistanceTo(n)

\* C19 as stated: a node returned by find_closest_node lies within the
\* search radius (200 m) and its score connectivity_score x 100 -
\* distance / 10 is maximal among all graph nodes within the radius.
C19_BestScoreWithinRadius ==
    (Returned("find_closest_node") /\ result # NoNode) =>
        /\ result \in NodesWithinRadius
        /\ \A n \in NodesWithinRadius : ScoreOf(result) >= ScoreOf(n)

\* what the code does: the returned node has the best score among the nodes
\* within the radius whose latitude is not 0
C19_BestScoreAmongNonZeroNodes ==
    (Returned("find_closest_node") /\ result # NoNode) =>
        /\ result \in NodesWithinRadius
        /\ nodes[result].gps # 0
        /\ \A n \in NodesWithinRadius :
              nodes[n].gps # 0 => ScoreOf(result) >= ScoreOf(n)

\* a node was returned while a node on the equator, within the radius, has
\* a better score
C19_Witness ==
    /\ Returned("find_closest_node")
    /\ result # NoNode
    /\ \E n \in NodesWithinRadius :
          nodes[n].gps = 0 /\ ScoreOf(n) > ScoreOf(result)

\* C20 as stated: find_closest_node fails exactly when no graph node lies
\* within the search radius of the coordinate, for every coordinate and
\* every node position.
C20_FailsIffNoNodeWithinRadius ==
    Returned("find_closest_node") =>
        (result = NoNode <=> NodesWithinRadius = {})

\* what the code does: it fails exactly when the coordinate's latitude is 0
\* or no node of a latitude other than 0 lies within the radius
C20_FailsIffNoUsableNode ==
    Returned("find_closest_node") =>
        (result = NoNode <=>
            \/ args.lat = 0
            \/ { n \in NodesWithinRadius : nodes[n].gps # 0 } = {})

\* the call failed for a coordinate on the equator with a node 100 m away
C20_Witness ==
    /\ Returned("find_closest_node")
    /\ args.lat = 0
    /\ \E n \in NodesWithinRadius : DistanceTo(n) = 100
    /\ result = NoNode

(***************************************************************************)
(* Properties of two interleaved calls                                     *)
(***************************************************************************)
\* the running call has returned from a search with the path and the
\* summary it returns when it runs alone
ReturnsAsAlone ==
    (pc = "done" /\ SearchEntered) =>
        /\ route_path = PathAlone
        /\ result \in ResultsAlone

\* C15: of two find_optimal_route calls interleaved step by step on one
\* engine, each works on its own open lists, closed sets, cost maps and
\* parent maps, no step changes the nodes, the edges (and with them the
\* indices) or the vehicle database, and each call returns the path and
\* the summary it returns when run alone.
C15_InterleavedCallsReturnAsAlone ==
    /\ []ReturnsAsAlone
    /\ [][UNCHANGED graph_vars]_vars

\* a call has returned a route while the other call, between other nodes,
\* is in the middle of its search
C15_Witness ==
    /\ RouteAnalysed
    /\ other # NoCall
    /\ other.pc = "backward"
    /\ other.forward_closed # {}
    /\ other.start_node # start_node

(***************************************************************************)
(* Properties of the backward relaxation                                   *)
(***************************************************************************)
\* the cost of an edge under the relaxed thresholds of the running search
RelaxedCost(edge) == calculate_edge_cost(edge, backward_relaxed, time_of_day, mode)

\* the edges that are impassable under the relaxed thresholds, by position
ImpassableRelaxed == { i \in DOMAIN edges : ~RelaxedCost(edges[i]).passable }

\* the backward search expands the end node in this step
ExpandsEnd ==
    /\ pc = "backward" /\ pc' = "search"
    /\ end_node \notin backward_closed
    /\ end_node \in backward_closed'

\* the impassable edges into the end node get their source recorded with
\* three times the edge's cost and pushed on the backward heap
EndEdgesAdmitted ==
    ExpandsEnd =>
        \A i \in ImpassableRelaxed :
            (edges[i].to = end_node /\ edges[i].from # end_node) =>
                /\ edges[i].from \in DOMAIN backward_g_costs'
                /\ backward_g_costs'[edges[i].from]
                      = MulInf(RelaxedCost(edges[i]).total_cost, 3)
                /\ backward_parents'[edges[i].from].parent = end_node
                /\ \E entry \in backward_open' :
                      /\ entry[2] = edges[i].from
                      /\ entry[3] = << end_node, edges[i].from >>

\* no node has been recorded backward through an impassable edge into a
\* node other than the end node
OtherImpassableEdgesSkipped ==
    SearchEntered =>
        \A n \in DOMAIN backward_parents :
            (/\ backward_parents[n].parent # NoNode
             /\ backward_parents[n].parent # end_node) =>
                \E i \in DOMAIN edges \ ImpassableRelaxed :
                    /\ edges[i].from = n
                    /\ edges[i].to = backward_parents[n].parent

\* C21: in the backward search an edge that is impassable under the relaxed
\* thresholds is admitted only if its head is the destination node, and
\* then its source is put on the backward heap with accumulated cost three
\* times the edge's cost; an impassable edge into any other node is never
\* admitted.
C21_EndEdgeAdmittedAtThreeTimes ==
    /\ []OtherImpassableEdgesSkipped
    /\ [][EndEdgesAdmitted]_vars

\* the end node has been expanded and the source of an impassable edge into
\* it waits on the backward heap
C21_Witness ==
    /\ pc = "search"
    /\ backward_closed = {end_node}
    /\ \E i \in ImpassableRelaxed :
          /\ edges[i].to = end_node
          /\ edges[i].from \in DOMAIN backward_g_costs
          /\ \E entry \in backward_open : entry[2] = edges[i].from

\* the position in the returned path of the node the two searches met at
MeetingIndex == Len(ForwardSubPath)

\* the slope of every edge from one node to another is within 1.4 times the
\* maximum slope of the vehicle, both in hundredths of a percent
WithinRelaxedMaximum(from, to) ==
    Abs(calculate_slope(from, to).slope_percent) * 10
        <= vehicle_capability.maximum_slope * 14

\* C22: in a returned path every edge of the backward leg, from the meeting
\* node to the destination, has |slope| <= 1.4 x the vehicle's maximum
\* slope, except possibly the last edge, the one into the destination.
C22_BackwardLegWithinRelaxedMaximum ==
    (pc \in {"analyze", "done"} /\ meeting_point # NoNode) =>
        \A i \in MeetingIndex .. Len(route_path) - 2 :
            WithinRelaxedMaximum(route_path[i], route_path[i + 1])

\* a returned path whose backward leg climbs, before its last edge, a slope
\* above the vehicle's maximum and within 1.4 times it
C22_Witness ==
    /\ pc = "done"
    /\ meeting_point # NoNode
    /\ \E i \in MeetingIndex .. Len(route_path) - 2 :
          /\ Abs(calculate_slope(route_path[i], route_path[i + 1]).slope_percent)
                > vehicle_capability.maximum_slope
          /\ WithinRelaxedMaximum(route_path[i], route_path[i + 1])

\* a returned path whose last edge is steeper than 1.4 times the maximum
C22_WitnessEndEdge ==
    /\ pc = "done"
    /\ meeting_point # NoNode
    /\ MeetingIndex < Len(route_path)
    /\ ~WithinRelaxedMaximum(route_path[Len(route_path) - 1],
                             route_path[Len(route_path)])

(***************************************************************************)
(* Properties of the forward relaxation                                    *)
(***************************************************************************)
\* the distances of the edges from one node to another
DistancesBetween(from, to) ==
    { Get(edges[i], "distance", 100) :
        i \in { j \in DOMAIN edges : edges[j].from = from /\ edges[j].to = to } }

\* the shortest of the edges from one node to another
ShortestBetween(from, to) ==
    CHOOSE d \in DistancesBetween(from, to) :
        \A other_d \in DistancesBetween(from, to) : d <= other_d

\* the sum of the edge distances along the first n nodes of a path
RECURSIVE PathDistance(_, _)
PathDistance(path, n) ==
    IF n <= 1 THEN 0
    ELSE PathDistance(path, n - 1) + ShortestBetween(path[n - 1], path[n])

\* every recorded forward path is a walk of the graph from the start node
\* to its node, and the recorded g-cost is the sum of its edge distances
ForwardCostIsPathDistance ==
    SearchEntered =>
        \A n \in DOMAIN forward_g_costs :
            LET path == forward_parents[n].path
            IN  /\ path[1] = start_node /\ path[Len(path)] = n
                /\ \A i \in 1 .. Len(path) - 1 :
                      DistancesBetween(path[i], path[i + 1]) # {}
                /\ forward_g_costs[n] = PathDistance(path, Len(path))

\* when the forward search expands a node, every edge that leaves it for a
\* node not yet closed is relaxed, whatever its slope
ForwardRelaxesEveryEdge ==
    (pc = "search" /\ pc' = "backward" /\ forward_closed' # forward_closed) =>
        \A i \in DOMAIN edges :
            (/\ edges[i].from \in forward_closed' \ forward_closed
             /\ edges[i].to \notin forward_closed') =>
                /\ edges[i].to \in DOMAIN forward_g_costs'
                /\ forward_g_costs'[edges[i].to]
                      <= forward_g_costs'[edges[i].from] + Get(edges[i], "distance", 100)

\* C23: the forward search uses pure distance and ignores slope: the forward
\* g-cost recorded for a node is the sum of the edge distances along the
\* forward path recorded for it, and every outgoing edge of an expanded
\* node is relaxed regardless of its slope and of the vehicle's thresholds.
C23_ForwardUsesDistanceOnly ==
    /\ []ForwardCostIsPathDistance
    /\ [][ForwardRelaxesEveryEdge]_vars

\* the forward search has recorded a path of two edges whose last edge is
\* impassable even under the relaxed thresholds
C23_Witness ==
    /\ SearchEntered
    /\ \E n \in DOMAIN forward_parents :
          /\ Len(forward_parents[n].path) = 3
          /\ forward_g_costs[n] > 0
          /\ \E i \in ImpassableRelaxed :
                /\ edges[i].from = forward_parents[n].parent
                /\ edges[i].to = n

(***************************************************************************)
(* Properties of calculate_edge_cost                                       *)
(***************************************************************************)
\* the capability and the absolute slope of a returned calculate_edge_cost
CostedCapability == args.vehicle_capability
CostedSlope == Abs(result.slope_info.slope_percent)

\* the slopes strictly between the comfortable and the maximum threshold of
\* the capability of the call, every hundredth of a percent
SlopesBetween == CostedCapability.comfortable_slope + 1 .. CostedCapability.maximum_slope - 1

BothReturned == pc = "done" /\ SearchEntered /\ other.pc = "done"

\* the summaries find_optimal_route can return for a path (lines 372-407);
\* they differ only in how the floating-point totals round at a tie
SummariesOf(path, start, cap, tod) ==
    IF path = NoPath \/ Len(path) < 2
    THEN { NotFoundSummary(start, cap) }
    ELSE analyze_route(path, cap, tod)

\* the two calls returned the same path and the same summary
SameReturn ==
    /\ route_path = other.route_path
    /\ result \in SummariesOf(route_path, start_node, vehicle_capability, time_of_day)
    /\ other.result \in SummariesOf(other.route_path, other.start_node,
                                     other.vehicle_capability, other.time_of_day)
    /\ SummariesOf(route_path, start_node, vehicle_capability, time_of_day)
         = SummariesOf(other.route_path, other.start_node,
                       other.vehicle_capability, other.time_of_day)
    /\ ("error" \in DOMAIN result) = ("error" \in DOMAIN other.result)
    /\ "error" \notin DOMAIN result => result.segments = other.result.segments

\* C25: every mode other than power_optimized uses the weights (1,1,1): for
\* the same graph, endpoints, vehicle and time of day, find_optimal_route
\* returns the same path and the same summary under fuel_saver, time_saver
\* and balanced.
C25_EqualWeightModesAgree ==
    (BothReturned /\ mode # other.mode) =>
        /\ {mode, other.mode} \subseteq {"fuel_saver", "time_saver", "balanced"}
        /\ ModeWeights(mode) = ModeWeights(other.mode)
        /\ SameReturn

\* a route found under fuel_saver and found again under time_saver over
\* edges that are not all flat
C25_Witness ==
    /\ BothReturned
    /\ other.mode = "fuel_saver" /\ mode = "time_saver"
    /\ "error" \notin DOMAIN result
    /\ Len(route_path) = 3
    /\ result.max_slope > 0

(***************************************************************************)
(* The heuristic against the edge weights                                  *)
(***************************************************************************)
\* the most the heuristic can drop along the costed edge: its target lies
\* at one end of the edge
HeuristicDrop ==
    calculate_heuristic(args.edge.from, args.edge.to)
      - calculate_heuristic(args.edge.to, args.edge.to)

\* C26: the heuristic haversine_distance(node, target) / 100 is a lower
\* bound on the remaining cost: along every edge it drops by no more than
\* the weight the search charges for the edge, the edge distance in the
\* forward search and the total cost in the backward search, for every
\* edge length, speed limit and slope.
C26_HeuristicDropWithinEdgeWeight ==
    Returned("calculate_edge_cost") =>
        /\ HeuristicDrop <= ForwardEdgeWeight(args.edge)
        /\ HeuristicDrop * Micro <= BackwardEdgeWeight(result, FALSE)

\* what holds: the drop is within the edge distance, and within the total
\* cost of every edge of at most one kilometre
C26_HeuristicDropWithinShortEdgeWeight ==
    Returned("calculate_edge_cost") =>
        /\ HeuristicDrop <= ForwardEdgeWeight(args.edge)
        /\ args.edge.distance <= 1000 =>
              HeuristicDrop * Micro <= BackwardEdgeWeight(result, FALSE)

\* a flat edge of 1.7 km at 50 km/h, costed in a mode of equal weights under
\* a relaxed capability: the heuristic drops by 17 along it, its cost is less
C26_Witness ==
    /\ Returned("calculate_edge_cost")
    /\ args.edge.distance = 1700 /\ args.edge.speed_limit = 50
    /\ args.mode = "balanced"
    /\ args.vehicle_capability.comfortable_slope = Relaxed(1100)
    /\ result.slope_info.slope_percent = 0
    /\ result.passable
    /\ HeuristicDrop = 17
    /\ result.total_cost < 17 * Micro

(***************************************************************************)
(* The returned path as a walk of the graph                                *)
(***************************************************************************)
\* a_star_search has returned a path
PathReturned == pc \in {"analyze", "done"} /\ meeting_point # NoNode

\* C27: every path a_star_search returns is a directed walk of the graph
\* from the start node to the end node without a repeated node: it starts
\* at the start node, ends at the end node, and the graph has an edge from
\* each node to the next, so that analyze_route skips no pair.
C27_ReturnedPathIsSimpleWalk ==
    PathReturned =>
        /\ Len(route_path) >= 2
        /\ route_path[1] = start_node
        /\ route_path[Len(route_path)] = end_node
        /\ \A i \in 1 .. Len(route_path) - 1 :
              \E j \in DOMAIN edges :
                  edges[j].from = route_path[i] /\ edges[j].to = route_path[i + 1]
        /\ \A i, j \in 1 .. Len(route_path) : route_path[i] = route_path[j] => i = j
        /\ pc = "done" =>
              /\ Len(result.segments) = Len(route_path) - 1
              /\ \A i \in 1 .. Len(route_path) - 1 :
                    /\ result.segments[i].from = route_path[i]
                    /\ result.segments[i].to = route_path[i + 1]

\* a returned path with an edge on each side of the meeting point
C27_Witness ==
    /\ pc = "done"
    /\ meeting_point # NoNode
    /\ Len(route_path) >= 3
    /\ Len(ForwardSubPath) >= 2 /\ Len(BackwardSubPath) >= 2
    /\ Len(result.segments) = Len(route_path) - 1

(***************************************************************************)
(* The closed sets                                                         *)
(***************************************************************************)
\* no node is closed in both directions
ClosedSetsDisjoint == forward_closed \cap backward_closed = {}

\* a step of a running search closes at most one node in a direction, a
\* node that was not closed there, and takes none out
ClosedOnce(closed, closed_after) ==
    /\ closed \subseteq closed_after
    /\ Cardinality(closed_after \ closed) <= 1

\* the cost and the parent path recorded for the closed nodes stay
Settled(closed, g_costs, g_costs_after, parents, parents_after) ==
    \A n \in closed :
        /\ n \in DOMAIN g_costs_after /\ n \in DOMAIN parents_after
        /\ g_costs_after[n] = g_costs[n]
        /\ parents_after[n] = parents[n]

ClosedNodesSettled ==
    (pc \in {"search", "backward"}) =>
        /\ ClosedOnce(forward_closed, forward_closed')
        /\ ClosedOnce(backward_closed, backward_closed')
        /\ Settled(forward_closed, forward_g_costs, forward_g_costs',
                   forward_parents, forward_parents')
        /\ Settled(backward_closed, backward_g_costs, backward_g_costs',
                   backward_parents, backward_parents')

\* C28: in every state of a_star_search the forward-closed and the
\* backward-closed set are disjoint; a node is added to a closed set at
\* most once per direction, and once it is closed its recorded g-cost and
\* parent path in that direction never change.
C28_ClosedSetsDisjointAndSettled ==
    /\ []ClosedSetsDisjoint
    /\ [][ClosedNodesSettled]_vars

\* both searches have closed two nodes, the second over an edge from or to
\* the first, whose recorded cost and path have stayed
C28_Witness ==
    /\ pc \in {"search", "backward"}
    /\ Cardinality(forward_closed) >= 2
    /\ Cardinality(backward_closed) >= 2
    /\ \E i \in DOMAIN edges : {edges[i].from, edges[i].to} \subseteq forward_closed
    /\ \E i \in DOMAIN edges : {edges[i].from, edges[i].to} \subseteq backward_closed

(***************************************************************************)
(* The vehicle and the time of day                                         *)
(***************************************************************************)
\* the second call was made for another vehicle than the first
OtherVehicle ==
    /\ BothReturned
    /\ vehicle_capability.vehicle_name # other.vehicle_capability.vehicle_name

\* a returned call found a route
Found(summary) == "error" \notin DOMAIN summary

\* the loop of a returned call ended at the iteration cap
StoppedAtCap(iterations) == iterations >= MaxIterations

\* C29: whether find_optimal_route finds a route does not depend on the
\* vehicle: for the same graph and the same start and end node, two valid
\* vehicles both get a route or both get the not-found summary, a route
\* being found exactly when the end node is reachable from the start node
\* by directed edges, unless the search stops at the iteration cap.
C29_FoundWhateverTheVehicle ==
    OtherVehicle =>
        /\ Found(result) => end_node \in ReachSet({start_node})
        /\ Found(other.result) => end_node \in ReachSet({start_node})
        /\ (end_node \in ReachSet({start_node}) /\ ~StoppedAtCap(iteration)) =>
              Found(result)
        /\ (end_node \in ReachSet({start_node}) /\ ~StoppedAtCap(other.iteration)) =>
              Found(other.result)
        /\ (~StoppedAtCap(iteration) /\ ~StoppedAtCap(other.iteration)) =>
              (Found(result) <=> Found(other.result))

\* the same route searched for the diesel and for the small petrol car, for
\* which an edge of the route is impassable even with relaxed thresholds
C29_Witness ==
    /\ OtherVehicle
    /\ Found(result) /\ Found(other.result)
    /\ ~StoppedAtCap(iteration) /\ ~StoppedAtCap(other.iteration)
    /\ \E i \in 1 .. Len(result.segments) :
          result.segments[i].passable # other.result.segments[i].passable

\* an end node out of reach: both vehicles get the not-found summary
C29_WitnessNotFound ==
    /\ OtherVehicle
    /\ ~Found(result) /\ ~Found(other.result)
    /\ ~StoppedAtCap(iteration) /\ ~StoppedAtCap(other.iteration)

\* the second call was made for the other time of day
OtherTime == BothReturned /\ time_of_day # other.time_of_day

\* C30: time_of_day has no influence on the outcome: for the same graph,
\* nodes, vehicle and mode find_optimal_route returns the same path,
\* segments and totals at peak and off peak, and calculate_edge_cost
\* returns the same result for both values on every edge.
C30_TimeOfDayIgnored ==
    OtherTime =>
        /\ {time_of_day, other.time_of_day} = TimesOfDay
        /\ mode = other.mode
        /\ vehicle_capability = other.vehicle_capability
        /\ SameReturn
        /\ \A i \in DOMAIN edges, m \in Modes :
              \A cap \in {vehicle_capability, backward_relaxed} :
                  calculate_edge_cost(edges[i], cap, "peak", m)
                    = calculate_edge_cost(edges[i], cap, "offpeak", m)

\* a route found at peak time and found again off peak, in power_optimized
C30_Witness ==
    /\ OtherTime
    /\ other.time_of_day = "peak" /\ time_of_day = "offpeak"
    /\ mode = "power_optimized"
    /\ Found(result)
    /\ result.total_time > 0
    /\ result.max_slope > 0

====
